---------------------------- MODULE Spec2Model ----------------------------
(***************************************************************************)
(* A model of the medusa-astro-starter tooling:                            *)
(*   - scripts/run.mjs: the command dispatcher and `setup <name>`          *)
(*     (firstSetup, traverseDirectory, renameInFile, generateSecret);      *)
(*   - the deployment script (backend/storefront readiness loops and the   *)
(*     seed decision).                                                     *)
(* File contents and names are sequences of one-character strings, so the  *)
(* regular-expression replace and the name pattern are computed on the     *)
(* characters, as the code computes them.                                  *)
(***************************************************************************)
EXTENDS Integers, Sequences, FiniteSets, TLC

(***************************************************************************)
(* Character strings.                                                      *)
(***************************************************************************)
LowerCase ==
  {"a","b","c","d","e","f","g","h","i","j","k","l","m",
   "n","o","p","q","r","s","t","u","v","w","x","y","z"}

Digits == {"0","1","2","3","4","5","6","7","8","9"}

HexDigits == <<"0","1","2","3","4","5","6","7","8","9","a","b","c","d","e","f">>

\* "changemename" (run.mjs:329)
NamePlaceholder == <<"c","h","a","n","g","e","m","e","n","a","m","e">>

\* "changemesecret" (run.mjs:348)
SecretPlaceholder == <<"c","h","a","n","g","e","m","e","s","e","c","r","e","t">>

\* s[i..j], empty when j < i
Sub(s, i, j) == IF j < i THEN << >> ELSE SubSeq(s, i, j)

\* old occurs in s at position p
OccursAt(s, old, p) ==
  /\ p >= 1
  /\ p + Len(old) - 1 <= Len(s)
  /\ Sub(s, p, p + Len(old) - 1) = old

Contains(s, old) == \E p \in 1..Len(s) : OccursAt(s, old, p)

DigitValue(d) == CHOOSE k \in 0..9 : HexDigits[k + 1] = d

RECURSIVE Base10(_)
\* $((10#digits)): the digits read in base 10, leading zeros allowed
Base10(c) ==
  IF c = << >> THEN 0
  ELSE Base10(Sub(c, 1, Len(c) - 1)) * 10 + DigitValue(c[Len(c)])

RECURSIVE MatchesFrom(_, _, _)
\* start positions of the matches of /old/g in s from position p on: the
\* leftmost match, then the leftmost one after its end, ...
MatchesFrom(s, old, p) ==
  IF p + Len(old) - 1 > Len(s) THEN << >>
  ELSE IF OccursAt(s, old, p)
       THEN <<p>> \o MatchesFrom(s, old, p + Len(old))
       ELSE MatchesFrom(s, old, p + 1)

Matches(s, old) == MatchesFrom(s, old, 1)

RECURSIVE Splice(_, _, _, _, _)
\* s from position p on, with the k-th and later matches (at ms[k], ...)
\* of length n replaced by vals[k], ...
Splice(s, n, ms, vals, k) ==
  IF k > Len(ms) THEN << >>
  ELSE vals[k]
       \o Sub(s, ms[k] + n, (IF k = Len(ms) THEN Len(s) ELSE ms[k + 1] - 1))
       \o Splice(s, n, ms, vals, k + 1)

\* String.prototype.replace(new RegExp(old, "g"), fn): every match is
\* replaced by the value fn returned for it
ReplaceWith(s, old, vals) ==
  LET ms == Matches(s, old)
  IN  IF ms = << >> THEN s
      ELSE Sub(s, 1, ms[1] - 1) \o Splice(s, Len(old), ms, vals, 1)


(***************************************************************************)
(* Secrets: generateSecret (run.mjs:92-95).                                *)
(***************************************************************************)
\* crypto.randomBytes(32)
SecretBytes == 32

\* the byte buffers the entropy source may hand out (any 32 bytes; these
\* are the representatives the model draws from)
Seeds == {0, 171}

RandomBuffers == {[i \in 1..SecretBytes |-> (s + 37 * i) % 256] : s \in Seeds}

RECURSIVE HexFrom(_, _)
\* buffer.toString("hex") from byte i on: two lowercase hex digits a byte
HexFrom(buf, i) ==
  IF i > Len(buf) THEN << >>
  ELSE <<HexDigits[(buf[i] \div 16) + 1], HexDigits[(buf[i] % 16) + 1]>>
       \o HexFrom(buf, i + 1)

\* generateSecret() on the buffer the entropy source returned
generateSecret(buf) == HexFrom(buf, 1)

(***************************************************************************)
(* The project-name pattern (run.mjs:280-282).                             *)
(***************************************************************************)
\* [a-z0-9-*~]
ScopeFirst == LowerCase \cup Digits \cup {"-", "*", "~"}

\* [a-z0-9-*._~]
ScopeRest == ScopeFirst \cup {".", "_"}

\* [a-z0-9-~]
NameFirst == LowerCase \cup Digits \cup {"-", "~"}

\* [a-z0-9-._~]
NameChar == LowerCase \cup Digits \cup {"-", ".", "_", "~"}

\* namePattern.test(s):
\* /^(?:(?:@(?:[a-z0-9-*~][a-z0-9-*._~]*)?\/[a-z0-9-._~])|[a-z0-9-~])[a-z0-9-._~]*$/
namePattern(s) ==
  \/ /\ Len(s) >= 1
     /\ s[1] \in NameFirst
     /\ \A i \in 2..Len(s) : s[i] \in NameChar
  \/ \E k \in 2..(Len(s) - 1) :
       /\ s[1] = "@"
       /\ s[k] = "/"
       /\ \/ k = 2
          \/ /\ s[2] \in ScopeFirst
             /\ \A i \in 3..(k - 1) : s[i] \in ScopeRest
       /\ s[k + 1] \in NameChar
       /\ \A i \in (k + 2)..Len(s) : s[i] \in NameChar

(***************************************************************************)
(* The project tree.  A path is the sequence of its components below the   *)
(* root; a file's state is its content, or Absent.                         *)
(***************************************************************************)
Absent == <<"ABSENT">>

NoFile == <<"NOFILE">>

RootDir == << >>

EnvExampleName == ".env.example"

EnvName == ".env"

EnvProdName == ".env.production"

\* the entries readdirSync may list, directory by directory, in its order
Listing(dir) ==
  CASE dir = RootDir ->
         << [name |-> ".env", isDir |-> FALSE],
            [name |-> ".env.example", isDir |-> FALSE],
            [name |-> ".env.production", isDir |-> FALSE],
            [name |-> "README.md", isDir |-> FALSE],
            [name |-> "node_modules", isDir |-> TRUE],
            [name |-> "packages", isDir |-> TRUE],
            [name |-> "tsconfig.json", isDir |-> FALSE] >>
    [] dir = <<"node_modules">> ->
         << [name |-> "pkg.js", isDir |-> FALSE] >>
    [] dir = <<"packages">> ->
         << [name |-> "medusa", isDir |-> TRUE] >>
    [] dir = <<"packages", "medusa">> ->
         << [name |-> ".env", isDir |-> FALSE],
            [name |-> ".env.example", isDir |-> FALSE],
            [name |-> ".env.production", isDir |-> FALSE],
            [name |-> "build", isDir |-> TRUE],
            [name |-> "index.js", isDir |-> FALSE] >>
    [] dir = <<"packages", "medusa", "build">> ->
         << [name |-> "out.js", isDir |-> FALSE] >>
    [] OTHER -> << >>

AllDirs ==
  { RootDir, <<"node_modules">>, <<"packages">>, <<"packages", "medusa">>,
    <<"packages", "medusa", "build">> }

AllFiles ==
  UNION { { d \o <<Listing(d)[i].name>> :
              i \in { j \in 1..Len(Listing(d)) : ~Listing(d)[j].isDir } } :
          d \in AllDirs }

\* path.basename, path.dirname
basename(p) == p[Len(p)]

dirname(p) == Sub(p, 1, Len(p) - 1)

\* fs.existsSync
existsSync(f, p) == f[p] # Absent

\* fs.readdirSync(dir, {withFileTypes: true}): the entries that exist
readdirSync(f, dir) ==
  SelectSeq(Listing(dir), LAMBDA e : e.isDir \/ existsSync(f, dir \o <<e.name>>))

(***************************************************************************)
(* traverseDirectory (run.mjs:125-155): the files handed to `operation`,   *)
(* in the order of the walk.                                               *)
(***************************************************************************)
RECURSIVE traverseEntries(_, _, _, _, _, _)
\* the mutant of the walk that descends into every directory
traverseEntriesNoPrune(f, dir, entries, k, ignoreFiles, ignoreDirs) ==
  IF k > Len(entries) THEN << >>
  ELSE LET entry == entries[k]
           relativePath == dir \o <<entry.name>>
           here ==
             IF entry.isDir
             THEN traverseEntries(f, relativePath, readdirSync(f, relativePath),
                                  1, ignoreFiles, ignoreDirs)
             ELSE IF entry.name \notin ignoreFiles
                  THEN <<relativePath>>
                  ELSE << >>
       IN  here \o traverseEntries(f, dir, entries, k + 1,
                                   ignoreFiles, ignoreDirs)

\* the loop over `entries` from entry k on (run.mjs:134-154)
traverseEntries(f, dir, entries, k, ignoreFiles, ignoreDirs) ==
  IF k > Len(entries) THEN << >>
  ELSE LET entry == entries[k]
           relativePath == dir \o <<entry.name>>
           here ==
             IF entry.isDir
             THEN IF /\ <<entry.name>> \notin ignoreDirs
                     /\ relativePath \notin ignoreDirs
                  THEN traverseEntries(f, relativePath,
                                       readdirSync(f, relativePath), 1,
                                       ignoreFiles, ignoreDirs)
                  ELSE << >>
             ELSE IF entry.name \notin ignoreFiles
                  THEN <<relativePath>>
                  ELSE << >>
       IN  here \o traverseEntries(f, dir, entries, k + 1,
                                   ignoreFiles, ignoreDirs)

traverseDirectory(f, dir, ignoreFiles, ignoreDirs) ==
  traverseEntries(f, dir, readdirSync(f, dir), 1, ignoreFiles, ignoreDirs)

\* run.mjs:303-311
filesToIgnore ==
  { "pnpm-lock.yaml", ".gitignore", "pnpm-workspace.yaml", "yarn.lock",
    "tsconfig.json", "run.mjs", ".env.example" }

\* run.mjs:312-319; an entry is compared with a directory's name and with
\* its path relative to the root
dirsToIgnore ==
  { <<"node_modules">>, <<"dist">>, <<"build">>, <<".git">>, <<".vscode">>,
    <<".docker">> }

(***************************************************************************)
(* Bounds of the model.                                                    *)
(***************************************************************************)
\* invocations of run.mjs in one behaviour (the first, then reruns of the
\* same command line)
MaxRuns == 2

\* secret placeholders in a template
MaxSecrets == 2

(***************************************************************************)
(* State.                                                                  *)
(***************************************************************************)
VARIABLES
  fs,        \* the project tree: file path -> content, or Absent
  badFile,   \* the file whose read/write/copy fails (NoFile: none)
  entropy,   \* the buffers crypto.randomBytes returns, call by call
  rng,       \* calls of generateSecret so far
  pc,        \* where the run.mjs process stands ("idle": no process)
  args,      \* process.argv.slice(2) of the current (or last) invocation
  runs,      \* invocations so far
  snap,      \* the tree when the current (or last) invocation started
  todo,      \* the files the current walk hands to its operation
  idx,       \* the next file of todo
  subs,      \* matches replaced by the current (or last) invocation
  visited,   \* files renameInFile rewrote in the current (or last) walk
  out,       \* what the current (or last) invocation printed
  caught,    \* firstSetup's catch block ran (run.mjs:363-365)
  exit,      \* exit status of the last invocation (NoExit: still running)
  prev,      \* how the invocation before the current one ended
  \* the deployment script
  dpc,          \* where the script stands
  mode,         \* $ENV: "prod" or "dev"
  loopI,        \* $i, the loop counter
  response,     \* $response of the last probe (0: curl printed 000)
  REGION_COUNT, \* $REGION_COUNT: the lines grep printed (<<0>> at first)
  probes,       \* probes made so far, by service
  healthyAt,    \* the probe that returned 200, by service (0: none yet)
  followUps,    \* the GETs made for a body: the URL, and what grep found
  decisions,    \* times the seed decision was taken
  seedRuns,     \* times the seed command was executed
  dout,         \* the lines the script printed
  \* the docker host, as run.mjs and make-scripts.sh find and leave it
  volumes,      \* the volumes `docker volume ls -q` lists
  images,       \* the images `docker images` lists (repository:tag)
  issued,       \* the docker commands issued so far, with their arguments
  ans,          \* the answers given to a confirmation prompt so far
  detected,     \* what `check` read from the three --version commands
  \* make-scripts.sh
  shpc,         \* where the script stands ("off": not started)
  shargs,       \* its first argument
  shexit,       \* its exit status (NoExit: still running)
  shout,        \* the lines it printed
  \* version_compare of the macOS setup script
  verArgs,      \* $1 and $2 of the call (<< >>: no call yet)
  verResult     \* its return status (NoExit: not returned yet)

runVars == <<pc, args, runs, snap, todo, idx, subs, visited, out, caught, exit, prev>>

setupVars == <<fs, badFile, entropy, rng, runVars>>

deployVars ==
  <<dpc, mode, loopI, response, REGION_COUNT, probes, healthyAt, followUps,
    decisions, seedRuns, dout>>

hostVars == <<volumes, images, issued, ans, detected>>

makeVars == <<shpc, shargs, shexit, shout>>

versionVars == <<verArgs, verResult>>

auxVars == <<hostVars, makeVars, versionVars>>

vars == <<setupVars, deployVars, auxVars>>

\* no exit status yet (an exit status is 0..255)
NoExit == 0 - 1

(***************************************************************************)
(* File contents.                                                          *)
(***************************************************************************)
RECURSIVE SecretLines(_)
SecretLines(k) ==
  IF k = 0 THEN << >>
  ELSE SecretLines(k - 1) \o <<";", "S", "=">> \o SecretPlaceholder

\* a .env.example with the project name and k secret placeholders
TemplateWith(k) == <<"N", "=">> \o NamePlaceholder \o SecretLines(k)

ReadmeContents ==
  { <<"#">> \o NamePlaceholder,
    <<"c", "h", "a", "n", "g", "e">> \o NamePlaceholder,
    <<"c", "h", "a", "n", "g", "e", "m", "e", "n", "a">> \o NamePlaceholder,
    <<"o", "k">> }

IndexContent == NamePlaceholder \o <<"/">> \o NamePlaceholder

F_env == <<".env">>

F_example == <<".env.example">>

F_prod == <<".env.production">>

F_readme == <<"README.md">>

F_tsconfig == <<"tsconfig.json">>

F_module == <<"node_modules", "pkg.js">>

M_env == <<"packages", "medusa", ".env">>

M_example == <<"packages", "medusa", ".env.example">>

M_prod == <<"packages", "medusa", ".env.production">>

M_index == <<"packages", "medusa", "index.js">>

M_out == <<"packages", "medusa", "build", "out.js">>

\* a checkout: the root's .env, .env.production and README.md, medusa's
\* .env, and the number of secret placeholders of the root's template
InitialTree(e, pr, me, r, k) ==
  [p \in AllFiles |->
     CASE p = F_env -> e
       [] p = F_prod -> pr
       [] p = M_env -> me
       [] p = M_prod -> Absent
       [] p = F_readme -> r
       [] p = F_example -> TemplateWith(k)
       [] p = M_example -> TemplateWith(1)
       [] p = M_index -> IndexContent
       [] OTHER -> NamePlaceholder]

\* the trees a checkout can be in before the first invocation
InitialTrees ==
  { InitialTree(e, pr, me, r, MaxSecrets) :
      e \in {Absent, TemplateWith(1), <<"N", "=", "x">>},
      pr \in {Absent, TemplateWith(1)},
      me \in {Absent, TemplateWith(1)},
      r \in ReadmeContents }

\* project names given on the command line
Names ==
  { <<"s", "h", "o", "p">>,
    <<"@", "o", "/", "s">>,
    <<"m", "e", "n", "a", "m", "e">>,
    <<"m", "e", "-", "x">>,
    NamePlaceholder \o <<"2">>,
    <<"s", "h", "o", "p", ".">>,
    <<"S", "h", "o", "p">>,
    <<"a", " ", "b">>,
    << >> }

CommandLines ==
  { << >>, <<"help">>, <<"bogus">>, <<"setup">> } \cup { <<"setup", n>> : n \in Names }

(***************************************************************************)
(* renameInFile and the two operations of firstSetup.  A step of file      *)
(* work takes and returns a record: the tree, the generator calls made,    *)
(* the matches replaced, the lines printed, and whether it threw.          *)
(***************************************************************************)
Work(f, r, n, o) == [fs |-> f, rng |-> r, subs |-> n, out |-> o, threw |-> FALSE]

\* the mutant of renameInFile that replaces the first match only (no "g")
renameInFileFirstOnly(st, filePath, oldName, newName, generator) ==
  IF st.threw THEN st
  ELSE IF filePath = badFile THEN [st EXCEPT !.threw = TRUE]
  ELSE LET content == st.fs[filePath]
           ms == Matches(content, oldName)
           n == IF ms = << >> THEN 0 ELSE 1
           vals == [k \in 1..n |->
                      IF generator THEN generateSecret(entropy[st.rng + k])
                      ELSE newName]
           replaced ==
             IF n = 0 THEN content
             ELSE Sub(content, 1, ms[1] - 1) \o vals[1]
                  \o Sub(content, ms[1] + Len(oldName), Len(content))
       IN  [st EXCEPT !.fs[filePath] = replaced,
                      !.rng = IF generator THEN @ + n ELSE @,
                      !.subs = @ + n]

\* the mutant of renameInFile that calls the generator once for the file
renameInFileOncePerFile(st, filePath, oldName, newName, generator) ==
  IF st.threw THEN st
  ELSE IF filePath = badFile THEN [st EXCEPT !.threw = TRUE]
  ELSE LET content == st.fs[filePath]
           n == Len(Matches(content, oldName))
           vals == [k \in 1..n |->
                      IF generator THEN generateSecret(entropy[st.rng + 1])
                      ELSE newName]
       IN  [st EXCEPT !.fs[filePath] = ReplaceWith(content, oldName, vals),
                      !.rng = IF generator /\ n > 0 THEN @ + 1 ELSE @,
                      !.subs = @ + n]

\* renameInFile (run.mjs:106-115): read, replace every match (by newName,
\* or by what a call of the generator returns for that match), write
renameInFile(st, filePath, oldName, newName, generator) ==
  IF st.threw THEN st
  ELSE IF filePath = badFile THEN [st EXCEPT !.threw = TRUE]
  ELSE LET content == st.fs[filePath]
           n == Len(Matches(content, oldName))
           vals == [k \in 1..n |->
                      IF generator THEN generateSecret(entropy[st.rng + k])
                      ELSE newName]
       IN  [st EXCEPT !.fs[filePath] = ReplaceWith(content, oldName, vals),
                      !.rng = IF generator THEN @ + n ELSE @,
                      !.subs = @ + n]

\* the mutant of the first walk's operation that also fills in secrets
renameOperationSecrets(st, filePath, name) ==
  renameInFile(renameInFile(st, filePath, NamePlaceholder, name, FALSE),
               filePath, SecretPlaceholder, << >>, TRUE)

\* the operation of the first walk (run.mjs:328-330)
renameOperation(st, filePath, name) ==
  renameInFile(st, filePath, NamePlaceholder, name, FALSE)

\* run.mjs:345-350 and 352-357: create one target from the template unless
\* it exists
createEnvFile(st, filePath, target, name) ==
  IF st.threw \/ existsSync(st.fs, target) THEN st
  ELSE IF badFile \in {filePath, target} THEN [st EXCEPT !.threw = TRUE]
  ELSE LET copied == [st EXCEPT !.fs[target] = st.fs[filePath]]
           named == renameInFile(copied, target, NamePlaceholder, name, FALSE)
           secret == renameInFile(named, target, SecretPlaceholder, << >>, TRUE)
       IN  [secret EXCEPT !.out = @ \cup
                            {IF basename(target) = EnvName
                             THEN "Created .env file"
                             ELSE "Created .env.production file"}]

\* the operation of the second walk (run.mjs:339-359)
envOperation(st, filePath, name) ==
  IF basename(filePath) = EnvExampleName
  THEN LET dirPath == dirname(filePath)
           envPath == dirPath \o <<EnvName>>
           envProdPath == dirPath \o <<EnvProdName>>
       IN  createEnvFile(createEnvFile(st, filePath, envPath, name),
                         filePath, envProdPath, name)
  ELSE st

(***************************************************************************)
(* run.mjs as a process: main and firstSetup.                              *)
(***************************************************************************)
\* the mutant of isSetupComplete that finds every project set up
isSetupCompleteAlways == TRUE

\* isSetupComplete (run.mjs:52-55): .env exists in the working directory
isSetupComplete == existsSync(fs, F_env)

newProjectName == args[2]

\* !newProjectName (run.mjs:484): no second argument, or an empty one
noProjectName == IF Len(args) < 2 THEN TRUE ELSE newProjectName = << >>

Exit(code, line) ==
  /\ pc' = "idle"
  /\ exit' = code
  /\ out' = out \cup line

\* a process starts: nothing ran, nothing printed
Start(a) ==
  /\ pc' = "main"
  /\ args' = a
  /\ runs' = runs + 1
  /\ snap' = fs
  /\ todo' = << >>
  /\ idx' = 1
  /\ subs' = 0
  /\ visited' = << >>
  /\ out' = {}
  /\ caught' = FALSE
  /\ exit' = NoExit
  /\ UNCHANGED <<fs, badFile, entropy, rng>>
  /\ UNCHANGED <<deployVars, auxVars>>

\* the first invocation, with any command line
Invoke ==
  /\ pc = "idle"
  /\ runs = 0
  /\ \E a \in CommandLines : Start(a)
  /\ prev' = "none"

\* the same command line is run again
Reinvoke ==
  /\ pc = "idle"
  /\ runs > 0
  /\ runs < MaxRuns
  /\ Start(args)
  /\ prev' = IF exit = 0 /\ ~caught /\ "Project setup complete" \in out
             THEN "complete" ELSE "other"

\* main up to the call of firstSetup, and firstSetup's validation
\* (run.mjs:457-500, 279-301, 321-333: the first walk lists its files)
Main ==
  /\ pc = "main"
  /\ UNCHANGED <<deployVars, auxVars>>
  /\ UNCHANGED <<fs, badFile, entropy, rng, args, runs, snap, subs, visited,
                 caught, prev>>
  /\ \/ /\ Len(args) = 0
        /\ Exit(1, {"error: no command provided"})
        /\ UNCHANGED <<todo, idx>>
     \/ /\ Len(args) > 0
        /\ args[1] \notin {"help", "check", "setup"}
        /\ ~isSetupComplete
        /\ Exit(1, {"Error: Project setup has not been completed"})
        /\ UNCHANGED <<todo, idx>>
     \/ /\ Len(args) > 0
        /\ args[1] = "help"
        /\ Exit(0, {"Usage"})
        /\ UNCHANGED <<todo, idx>>
     \/ /\ Len(args) > 0
        /\ args[1] = "setup"
        /\ noProjectName
        /\ Exit(1, {"error: no project name provided"})
        /\ UNCHANGED <<todo, idx>>
     \/ /\ Len(args) > 0
        /\ args[1] = "setup"
        /\ ~noProjectName
        /\ ~namePattern(newProjectName)
        /\ Exit(1, {"error: invalid project name"})
        /\ UNCHANGED <<todo, idx>>
     \/ /\ Len(args) > 0
        /\ args[1] = "setup"
        /\ ~noProjectName
        /\ namePattern(newProjectName)
        /\ pc' = "rename"
        /\ todo' = traverseDirectory(fs, RootDir, filesToIgnore, dirsToIgnore)
        /\ idx' = 1
        /\ UNCHANGED <<out, exit>>
     \/ /\ Len(args) > 0
        /\ args[1] = "check"
        /\ pc' = "check"
        /\ UNCHANGED <<todo, idx, out, exit>>
     \/ /\ Len(args) > 0
        /\ args[1] = "clean"
        /\ isSetupComplete
        /\ pc' = "clean"
        /\ UNCHANGED <<todo, idx, out, exit>>
     \/ /\ Len(args) > 0
        /\ args[1] = "clean:all"
        /\ isSetupComplete
        /\ pc' = "cleanAll"
        /\ UNCHANGED <<todo, idx, out, exit>>
     \/ /\ Len(args) > 0
        /\ args[1] \notin {"help", "check", "setup", "clean", "clean:all"}
        /\ isSetupComplete
        /\ Exit(1, {"error: unknown command"})
        /\ UNCHANGED <<todo, idx>>

\* a thrown error lands in firstSetup's catch (run.mjs:363-365); what the
\* operation did before it threw stays done
Catch(st) ==
  /\ pc' = "complete"
  /\ caught' = TRUE
  /\ out' = st.out \cup {"Error:"}
  /\ fs' = st.fs
  /\ rng' = st.rng
  /\ subs' = st.subs

\* the mutant of the first walk that reports a failing file and goes on
RenameStepContinue ==
  /\ pc = "rename"
  /\ UNCHANGED <<deployVars, auxVars>>
  /\ idx <= Len(todo)
  /\ LET st == renameOperation(Work(fs, rng, subs, out), todo[idx], newProjectName)
     IN  /\ fs' = st.fs
         /\ rng' = st.rng
         /\ subs' = st.subs
         /\ idx' = idx + 1
         /\ IF st.threw
            THEN /\ caught' = TRUE
                 /\ out' = out \cup {"Error:"}
                 /\ UNCHANGED visited
            ELSE /\ visited' = Append(visited, todo[idx])
                 /\ UNCHANGED <<caught, out>>
  /\ UNCHANGED <<pc, badFile, entropy, args, runs, snap, todo, exit, prev>>

\* the first walk hands its next file to renameInFile (run.mjs:325-333)
RenameStep ==
  /\ pc = "rename"
  /\ UNCHANGED <<deployVars, auxVars>>
  /\ idx <= Len(todo)
  /\ LET st == renameOperation(Work(fs, rng, subs, out), todo[idx], newProjectName)
     IN  IF st.threw
         THEN /\ Catch(st)
              /\ UNCHANGED <<visited, idx>>
         ELSE /\ fs' = st.fs
              /\ rng' = st.rng
              /\ subs' = st.subs
              /\ visited' = Append(visited, todo[idx])
              /\ idx' = idx + 1
              /\ UNCHANGED <<pc, caught, out>>
  /\ UNCHANGED <<badFile, entropy, args, runs, snap, todo, exit, prev>>

\* the first walk is over; the second lists its files (run.mjs:336-362)
RenameDone ==
  /\ pc = "rename"
  /\ UNCHANGED <<deployVars, auxVars>>
  /\ idx > Len(todo)
  /\ pc' = "env"
  /\ todo' = traverseDirectory(fs, RootDir, filesToIgnore, dirsToIgnore)
  /\ idx' = 1
  /\ UNCHANGED <<fs, badFile, entropy, rng, args, runs, snap, subs, visited,
                 out, caught, exit, prev>>

\* the second walk hands its next file to its operation (run.mjs:339-359)
EnvStep ==
  /\ pc = "env"
  /\ UNCHANGED <<deployVars, auxVars>>
  /\ idx <= Len(todo)
  /\ LET st == envOperation(Work(fs, rng, subs, out), todo[idx], newProjectName)
     IN  IF st.threw
         THEN /\ Catch(st)
              /\ UNCHANGED idx
         ELSE /\ fs' = st.fs
              /\ rng' = st.rng
              /\ subs' = st.subs
              /\ out' = st.out
              /\ idx' = idx + 1
              /\ UNCHANGED <<pc, caught>>
  /\ UNCHANGED <<badFile, entropy, args, runs, snap, todo, visited, exit, prev>>

\* the second walk is over
EnvDone ==
  /\ pc = "env"
  /\ UNCHANGED <<deployVars, auxVars>>
  /\ idx > Len(todo)
  /\ pc' = "complete"
  /\ UNCHANGED <<fs, badFile, entropy, rng, args, runs, snap, todo, idx, subs,
                 visited, out, caught, exit, prev>>

\* the mutant of the end of firstSetup that ends with status 1 after a
\* caught failure
CompleteFailing ==
  /\ pc = "complete"
  /\ UNCHANGED <<deployVars, auxVars>>
  /\ Exit(IF caught THEN 1 ELSE 0, {"Project setup complete"})
  /\ UNCHANGED <<fs, badFile, entropy, rng, args, runs, snap, todo, idx, subs,
                 visited, caught, prev>>

\* run.mjs:367, then main's finally (run.mjs:504-506)
Complete ==
  /\ pc = "complete"
  /\ UNCHANGED <<deployVars, auxVars>>
  /\ Exit(0, {"Project setup complete"})
  /\ UNCHANGED <<fs, badFile, entropy, rng, args, runs, snap, todo, idx, subs,
                 visited, caught, prev>>

(***************************************************************************)
(* The deployment script: build, backend readiness loop, seed decision,    *)
(* storefront readiness loop.  The script has no `set -e`: a failing       *)
(* command does not stop it.                                               *)
(***************************************************************************)
TIMEOUT == 60

SLEEP_INTERVAL == 5

\* MAX_RETRIES=$((TIMEOUT / SLEEP_INTERVAL))
MAX_RETRIES == TIMEOUT \div SLEEP_INTERVAL

BACKEND_SERVICE == "backend"

STOREFRONT_SERVICE == "storefront"

\* HEALTH_CHECK_URL of each loop
HEALTH_CHECK_URL(service) ==
  IF service = BACKEND_SERVICE
  THEN "http://localhost:9000/store/regions"
  ELSE "http://localhost:4321/"

\* what curl -w "%{http_code}" can print: the status, or 000 (here 0) when
\* the connection fails
StatusCodes == {200, 503, 0}

\* "count": as the pattern of line 51 spells it
CountKey == <<"\"", "c", "o", "u", "n", "t", "\"", ":">>

\* \s of the pattern
RegexSpace == {" ", "\t", "\n"}

RECURSIVE spanOf(_, _, _)
\* the number of characters of s from position p on that lie in set
spanOf(s, p, set) ==
  IF p > Len(s) THEN 0
  ELSE IF s[p] \in set THEN 1 + spanOf(s, p + 1, set)
  ELSE 0

RECURSIVE grepFrom(_, _)
\* the matches of "count":\s*\K[0-9]+ in s from position p on, leftmost
\* first, each by the value of the digits grep prints for it
grepFrom(s, p) ==
  IF p > Len(s) THEN << >>
  ELSE IF OccursAt(s, CountKey, p)
  THEN LET w == p + Len(CountKey) + spanOf(s, p + Len(CountKey), RegexSpace)
           d == spanOf(s, w, Digits)
       IN  IF d > 0
           THEN <<Base10(Sub(s, w, w + d - 1))>> \o grepFrom(s, w + d)
           ELSE grepFrom(s, p + 1)
  ELSE grepFrom(s, p + 1)

\* the mutant of the extraction that prints 1 for a body without a count
grepCountOrOne(body) ==
  IF grepFrom(body, 1) = << >> THEN <<1>> ELSE grepFrom(body, 1)

\* echo $response | grep -oP '"count":\s*\K[0-9]+' (line 51): one line a
\* match, none for a body without a match
grepCount(body) == grepFrom(body, 1)

\* bodies of the follow-up GET: a count of 0, a count of 3 after a blank,
\* no count field, nothing at all (the GET failed), a count in quotes
Bodies ==
  { <<"{", "\"", "c", "o", "u", "n", "t", "\"", ":", "0", "}">>,
    <<"{", "\"", "c", "o", "u", "n", "t", "\"", ":", " ", "3", "}">>,
    <<"{", "\"", "r", "e", "g", "i", "o", "n", "s", "\"", ":", "[", "]", "}">>,
    << >>,
    <<"{", "\"", "c", "o", "u", "n", "t", "\"", ":", "\"", "3", "\"", "}">> }

\* what grep prints for the bodies: nothing, or the value of the body's
\* count field
Extracts == { grepCount(b) : b \in Bodies }

\* the mutant of the seed test with -ge
HasDataAlways(count) == IF Len(count) = 1 THEN count[1] >= 0 ELSE FALSE

\* [ "$REGION_COUNT" -gt 0 ]: false also when the operand is no integer
HasData(count) == IF Len(count) = 1 THEN count[1] > 0 ELSE FALSE

\* the mutant of the loop condition with -lt
LoopGuardLess(n) == n < MAX_RETRIES

\* [ "$i" -le $MAX_RETRIES ]
LoopGuard(n) == n <= MAX_RETRIES

DeployIdle ==
  /\ dpc = "off"
  /\ mode = "dev"
  /\ loopI = 0
  /\ response = 0
  /\ REGION_COUNT = <<0>>
  /\ probes = [s \in {BACKEND_SERVICE, STOREFRONT_SERVICE} |-> 0]
  /\ healthyAt = [s \in {BACKEND_SERVICE, STOREFRONT_SERVICE} |-> 0]
  /\ followUps = << >>
  /\ decisions = 0
  /\ seedRuns = 0
  /\ dout = {}

\* lines 29-44: build, down, up of the backend group; i=0, REGION_COUNT=0
BackendStart ==
  /\ dpc = "start"
  /\ dpc' = "backend"
  /\ loopI' = 0
  /\ REGION_COUNT' = <<0>>
  /\ dout' = dout \cup {"Build docker images", "Run backend groups",
                        "Waiting for [backend] to become healthy..."}
  /\ UNCHANGED <<mode, response, probes, healthyAt, followUps, decisions, seedRuns>>
  /\ UNCHANGED <<setupVars, auxVars>>

\* the mutant of the backend loop without its `break`
BackendProbeNoBreak ==
  /\ dpc = "backend"
  /\ LoopGuard(loopI)
  /\ \E code \in StatusCodes, body \in Bodies :
       /\ response' = code
       /\ probes' = [probes EXCEPT ![BACKEND_SERVICE] = @ + 1]
       /\ loopI' = loopI + 1
       /\ IF code = 200
          THEN /\ dout' = dout \cup {"[backend] is healthy"}
               /\ followUps' = Append(followUps,
                                       [url |-> HEALTH_CHECK_URL(BACKEND_SERVICE),
                                        body |-> body,
                                        count |-> grepCount(body)])
               /\ REGION_COUNT' = grepCount(body)
               /\ healthyAt' = [healthyAt EXCEPT ![BACKEND_SERVICE] =
                                  probes[BACKEND_SERVICE] + 1]
          ELSE /\ dout' = dout \cup {"Health check failed"}
               /\ UNCHANGED <<followUps, REGION_COUNT, healthyAt>>
  /\ UNCHANGED <<mode, decisions, seedRuns, dpc>>
  /\ UNCHANGED <<setupVars, auxVars>>

\* one turn of the backend loop (lines 45-58)
BackendProbe ==
  /\ dpc = "backend"
  /\ LoopGuard(loopI)
  /\ \E code \in StatusCodes, body \in Bodies :
       /\ response' = code
       /\ probes' = [probes EXCEPT ![BACKEND_SERVICE] = @ + 1]
       /\ IF code = 200
          THEN /\ dout' = dout \cup {"[backend] is healthy"}
               /\ followUps' = Append(followUps,
                                       [url |-> HEALTH_CHECK_URL(BACKEND_SERVICE),
                                        body |-> body,
                                        count |-> grepCount(body)])
               /\ REGION_COUNT' = grepCount(body)
               /\ healthyAt' = [healthyAt EXCEPT ![BACKEND_SERVICE] =
                                  probes[BACKEND_SERVICE] + 1]
               /\ dpc' = "seed"
               /\ UNCHANGED loopI
          ELSE /\ dout' = dout \cup {"Health check failed"}
               /\ loopI' = loopI + 1
               /\ UNCHANGED <<followUps, REGION_COUNT, healthyAt, dpc>>
  /\ UNCHANGED <<mode, decisions, seedRuns>>
  /\ UNCHANGED <<setupVars, auxVars>>

\* the backend loop's condition fails: the loop ends
BackendExhausted ==
  /\ dpc = "backend"
  /\ ~LoopGuard(loopI)
  /\ dpc' = "seed"
  /\ UNCHANGED <<mode, loopI, response, REGION_COUNT, probes, healthyAt,
                 followUps, decisions, seedRuns, dout>>
  /\ UNCHANGED <<setupVars, auxVars>>

\* lines 60-66: seed unless the count is greater than 0
SeedDecision ==
  /\ dpc = "seed"
  /\ decisions' = decisions + 1
  /\ IF HasData(REGION_COUNT)
     THEN /\ dout' = dout \cup {"The application already has data"}
          /\ UNCHANGED seedRuns
     ELSE /\ dout' = dout \cup {"Initialize seed data"}
          /\ seedRuns' = seedRuns + 1
  /\ dpc' = "storefrontStart"
  /\ UNCHANGED <<mode, loopI, response, REGION_COUNT, probes, healthyAt, followUps>>
  /\ UNCHANGED <<setupVars, auxVars>>

\* lines 68-81: build, down, up of the storefront; i=0
StorefrontStart ==
  /\ dpc = "storefrontStart"
  /\ dpc' = "storefront"
  /\ loopI' = 0
  /\ dout' = dout \cup {"Build storefront docker image",
                        "Waiting for [storefront] to become healthy..."}
  /\ UNCHANGED <<mode, response, REGION_COUNT, probes, healthyAt, followUps,
                 decisions, seedRuns>>
  /\ UNCHANGED <<setupVars, auxVars>>

\* the mutant of the storefront loop that a connection failure ends
StorefrontProbeAbort ==
  /\ dpc = "storefront"
  /\ LoopGuard(loopI)
  /\ \E code \in StatusCodes :
       /\ response' = code
       /\ probes' = [probes EXCEPT ![STOREFRONT_SERVICE] = @ + 1]
       /\ IF code = 200
          THEN /\ dout' = dout \cup {"[storefront] is healthy"}
               /\ healthyAt' = [healthyAt EXCEPT ![STOREFRONT_SERVICE] =
                                  probes[STOREFRONT_SERVICE] + 1]
               /\ dpc' = "prune"
               /\ UNCHANGED loopI
          ELSE /\ dout' = dout \cup {"Health check failed (storefront)"}
               /\ loopI' = loopI + 1
               /\ dpc' = IF code = 0 THEN "prune" ELSE dpc
               /\ UNCHANGED healthyAt
  /\ UNCHANGED <<mode, REGION_COUNT, followUps, decisions, seedRuns>>
  /\ UNCHANGED <<setupVars, auxVars>>

\* one turn of the storefront loop (lines 82-93)
StorefrontProbe ==
  /\ dpc = "storefront"
  /\ LoopGuard(loopI)
  /\ \E code \in StatusCodes :
       /\ response' = code
       /\ probes' = [probes EXCEPT ![STOREFRONT_SERVICE] = @ + 1]
       /\ IF code = 200
          THEN /\ dout' = dout \cup {"[storefront] is healthy"}
               /\ healthyAt' = [healthyAt EXCEPT ![STOREFRONT_SERVICE] =
                                  probes[STOREFRONT_SERVICE] + 1]
               /\ dpc' = "prune"
               /\ UNCHANGED loopI
          ELSE /\ dout' = dout \cup {"Health check failed (storefront)"}
               /\ loopI' = loopI + 1
               /\ UNCHANGED <<healthyAt, dpc>>
  /\ UNCHANGED <<mode, REGION_COUNT, followUps, decisions, seedRuns>>
  /\ UNCHANGED <<setupVars, auxVars>>

\* the mutant of the end of the storefront loop that gives the deployment up
\* when the budget is spent
StorefrontExhaustedAbort ==
  /\ dpc = "storefront"
  /\ ~LoopGuard(loopI)
  /\ dpc' = "aborted"
  /\ UNCHANGED <<mode, loopI, response, REGION_COUNT, probes, healthyAt,
                 followUps, decisions, seedRuns, dout>>
  /\ UNCHANGED <<setupVars, auxVars>>

\* the storefront loop's condition fails: the loop ends
StorefrontExhausted ==
  /\ dpc = "storefront"
  /\ ~LoopGuard(loopI)
  /\ dpc' = "prune"
  /\ UNCHANGED <<mode, loopI, response, REGION_COUNT, probes, healthyAt,
                 followUps, decisions, seedRuns, dout>>
  /\ UNCHANGED <<setupVars, auxVars>>

\* lines 95-98: prune dangling images (|| true), report
DeployDone ==
  /\ dpc = "prune"
  /\ dpc' = "done"
  /\ dout' = dout \cup {"Deployment completed"}
  /\ UNCHANGED <<mode, loopI, response, REGION_COUNT, probes, healthyAt,
                 followUps, decisions, seedRuns>>
  /\ UNCHANGED <<setupVars, auxVars>>

\* no tool version read yet
NoTools == [node |-> << >>, pnpm |-> << >>, docker |-> << >>]

\* a host without docker resources, on which nothing was asked or issued
HostIdle ==
  /\ volumes = {}
  /\ images = {}
  /\ issued = << >>
  /\ ans = << >>
  /\ detected = NoTools

\* make-scripts.sh was not started
MakeIdle ==
  /\ shpc = "off"
  /\ shargs = << >>
  /\ shexit = NoExit
  /\ shout = {}

\* version_compare was not called
VersionIdle ==
  /\ verArgs = << >>
  /\ verResult = NoExit

AuxIdle == HostIdle /\ MakeIdle /\ VersionIdle

\* run.mjs idle, as the deployment script finds it
SetupIdle ==
  /\ fs = InitialTree(TemplateWith(1), Absent, Absent, <<"o", "k">>, MaxSecrets)
  /\ badFile = NoFile
  /\ entropy = [n \in 1..(2 * MaxSecrets) |-> [j \in 1..SecretBytes |-> 0]]
  /\ rng = 0
  /\ pc = "idle"
  /\ args = << >>
  /\ runs = 0
  /\ snap = fs
  /\ todo = << >>
  /\ idx = 1
  /\ subs = 0
  /\ visited = << >>
  /\ out = {}
  /\ caught = FALSE
  /\ exit = NoExit
  /\ prev = "none"

InitDeploy ==
  /\ SetupIdle
  /\ AuxIdle
  /\ dpc = "start"
  /\ mode \in {"dev", "prod"}
  /\ loopI = 0
  /\ response = 0
  /\ REGION_COUNT = <<0>>
  /\ probes = [s \in {BACKEND_SERVICE, STOREFRONT_SERVICE} |-> 0]
  /\ healthyAt = [s \in {BACKEND_SERVICE, STOREFRONT_SERVICE} |-> 0]
  /\ followUps = << >>
  /\ decisions = 0
  /\ seedRuns = 0
  /\ dout = {}

NextDeploy ==
  \/ BackendStart
  \/ BackendProbe
  \/ BackendExhausted
  \/ SeedDecision
  \/ StorefrontStart
  \/ StorefrontProbe
  \/ StorefrontExhausted
  \/ DeployDone

SpecDeploy == InitDeploy /\ [][NextDeploy]_vars

\* the script's commands return (curl prints 000 when it cannot connect):
\* bash goes on to the next command as long as there is one
SpecDeployLive == SpecDeploy /\ WF_vars(NextDeploy)

FixedEntropy == [i \in 1..(2 * MaxSecrets) |-> [j \in 1..SecretBytes |-> 0]]

Init ==
  /\ fs \in InitialTrees
  /\ badFile \in {NoFile, F_readme, M_index}
  /\ entropy = FixedEntropy
  /\ rng = 0
  /\ pc = "idle"
  /\ args = << >>
  /\ runs = 0
  /\ snap = fs
  /\ todo = << >>
  /\ idx = 1
  /\ subs = 0
  /\ visited = << >>
  /\ out = {}
  /\ caught = FALSE
  /\ exit = NoExit
  /\ prev = "none"
  /\ DeployIdle
  /\ AuxIdle

Next ==
  \/ Invoke
  \/ Reinvoke
  \/ Main
  \/ RenameStep
  \/ RenameDone
  \/ EnvStep
  \/ EnvDone
  \/ Complete

Spec == Init /\ [][Next]_vars

(***************************************************************************)
(* Vocabulary of the properties of `setup`.                                *)
(***************************************************************************)
UpperCase ==
  {"A","B","C","D","E","F","G","H","I","J","K","L","M",
   "N","O","P","Q","R","S","T","U","V","W","X","Y","Z"}

IsSetup == IF Len(args) = 0 THEN FALSE ELSE args[1] = "setup"

\* `setup <name>` with a name the pattern accepts
ValidSetup ==
  IF IsSetup /\ ~noProjectName THEN namePattern(newProjectName) ELSE FALSE

\* the process has ended
Finished == pc = "idle" /\ runs > 0

\* `setup` ran both walks to their end
SetupCompleted ==
  /\ Finished
  /\ ValidSetup
  /\ ~caught
  /\ exit = 0
  /\ "Project setup complete" \in out

\* p lies in a directory the walk prunes, by name or by relative path
UnderIgnoredDir(p) ==
  \E i \in 1..(Len(p) - 1) :
    <<p[i]>> \in dirsToIgnore \/ Sub(p, 1, i) \in dirsToIgnore

Excluded(p) == UnderIgnoredDir(p) \/ basename(p) \in filesToIgnore

\* the templates `setup` is to find
Templates ==
  { p \in AllFiles :
      /\ basename(p) = EnvExampleName
      /\ existsSync(snap, p)
      /\ ~UnderIgnoredDir(p) }

EnvTargets == { p \in AllFiles : basename(p) \in {EnvName, EnvProdName} }

\* content with every project-name placeholder replaced by name
Renamed(content, name) ==
  ReplaceWith(content, NamePlaceholder,
              [k \in 1..Len(Matches(content, NamePlaceholder)) |-> name])

Range(seq) == { seq[i] : i \in 1..Len(seq) }

(***************************************************************************)
(* C1.  After `setup <name>` with a valid name completes, every directory  *)
(* holding a non-excluded .env.example also holds .env and                 *)
(* .env.production, and each one absent before the run is a copy of the    *)
(* template.                                                               *)
(***************************************************************************)
C1_EnvFilesCreated ==
  SetupCompleted =>
    \A t \in Templates :
      \A target \in {dirname(t) \o <<EnvName>>, dirname(t) \o <<EnvProdName>>} :
        /\ existsSync(fs, target)
        /\ ~existsSync(snap, target) => ~Contains(fs[target], NamePlaceholder)

(***************************************************************************)
(* C2.  For every invalid project name (an uppercase letter, a space, a    *)
(* trailing period, or empty) `setup` exits with status 1 and the tree is  *)
(* unchanged.                                                              *)
(***************************************************************************)
InvalidName(n) ==
  \/ n = << >>
  \/ \E i \in 1..Len(n) : n[i] \in UpperCase \/ n[i] = " "
  \/ IF n = << >> THEN FALSE ELSE n[Len(n)] = "."

C2_InvalidNameRejected ==
  (IF IsSetup /\ Len(args) = 2 THEN InvalidName(newProjectName) ELSE FALSE) =>
    /\ fs = snap
    /\ Finished => exit = 1

(***************************************************************************)
(* C3.  Running `setup` twice in succession with the same valid name is    *)
(* idempotent: the second run replaces nothing and leaves every file's     *)
(* content as the first run left it.                                       *)
(***************************************************************************)
SecondRun == runs >= 2 /\ prev = "complete" /\ ValidSetup

C3_SecondRunIdempotent == SecondRun => subs = 0 /\ fs = snap

\* name cannot form the placeholder, alone or with the text around it: it
\* does not contain it, is not part of it, does not begin with an ending of
\* it and does not end with a beginning of it
SafeName(n) ==
  LET w == NamePlaceholder
  IN  /\ ~Contains(n, w)
      /\ ~Contains(w, n)
      /\ \A k \in 1..(Len(w) - 1) :
           k <= Len(n) =>
             /\ Sub(n, 1, k) # Sub(w, Len(w) - k + 1, Len(w))
             /\ Sub(n, Len(n) - k + 1, Len(n)) # Sub(w, 1, k)

\* C3 as amended: the second run is idempotent for every valid name that
\* cannot form the placeholder, alone or with the text around it
C3_SecondRunIdempotentSafeName ==
  (IF SecondRun THEN SafeName(newProjectName) ELSE FALSE) =>
    subs = 0 /\ fs = snap

C3_Witness ==
  /\ SetupCompleted
  /\ SecondRun
  /\ SafeName(newProjectName)
  /\ Len(visited) > 1
  /\ fs[M_index] = newProjectName \o <<"/">> \o newProjectName
  /\ subs = 0

(***************************************************************************)
(* C4.  `setup` never changes a .env or .env.production that existed       *)
(* before the run, whatever its content.                                   *)
(***************************************************************************)
C4_ExistingEnvUntouched ==
  \A p \in EnvTargets : existsSync(snap, p) => fs[p] = snap[p]

\* C4 as amended: a .env or .env.production that existed before the run is
\* never re-created from the template and never gets the secret
\* substitution; the rename walk replaces the project-name placeholder in it
\* as in any other file, and that is the only change made to it
C4_ExistingEnvOnlyRenamed ==
  \A p \in EnvTargets :
    existsSync(snap, p) =>
      IF ValidSetup
      THEN /\ fs[p] \in {snap[p], Renamed(snap[p], newProjectName)}
           /\ (p \in Range(visited) \/ SetupCompleted) =>
                fs[p] = Renamed(snap[p], newProjectName)
      ELSE fs[p] = snap[p]

C4_Witness ==
  /\ SetupCompleted
  /\ existsSync(snap, F_env)
  /\ fs[F_env] # snap[F_env]
  /\ Contains(snap[F_env], SecretPlaceholder)
  /\ Contains(fs[F_env], SecretPlaceholder)
  /\ snap[F_example] # snap[F_env]

(***************************************************************************)
(* C5.  A directory in the exclusion set (by name or by path relative to   *)
(* the root) is never descended into and an excluded file is never passed  *)
(* to the rename operation: each keeps its content, placeholder included.  *)
(***************************************************************************)
C5_ExcludedUntouched ==
  \A p \in AllFiles :
    Excluded(p) =>
      /\ fs[p] = snap[p]
      /\ p \notin Range(todo)
      /\ p \notin Range(visited)

C5_Witness ==
  /\ SetupCompleted
  /\ Contains(fs[M_out], NamePlaceholder)
  /\ Contains(fs[F_module], NamePlaceholder)
  /\ Contains(fs[F_tsconfig], NamePlaceholder)
  /\ fs[M_index] # snap[M_index]

(***************************************************************************)
(* C7.  When reading or writing one file fails during the walk, the        *)
(* failure is reported for that file and the walk continues: every other   *)
(* non-excluded file is still visited and substituted.                     *)
(***************************************************************************)
\* the files the rename walk is to visit
RenameList == traverseDirectory(snap, RootDir, filesToIgnore, dirsToIgnore)

C7_TraversalContinues ==
  (Finished /\ caught) =>
    \A p \in Range(RenameList) :
      p # badFile =>
        /\ p \in Range(visited)
        /\ fs[p] = Renamed(snap[p], newProjectName)

\* C7 as amended: when reading or writing one file fails, the error is
\* printed once and the walk is aborted: the files before the failing one
\* keep their substituted content, the failing file and every later one are
\* neither visited nor changed, and the second walk does not run
C7_TraversalAborts ==
  caught =>
    /\ "Error:" \in out
    /\ \E n \in 1..Len(RenameList) :
         /\ RenameList[n] = badFile
         /\ visited = Sub(RenameList, 1, n - 1)
         /\ \A i \in 1..(n - 1) :
              fs[RenameList[i]] = Renamed(snap[RenameList[i]], newProjectName)
         /\ \A p \in AllFiles :
              p \notin Range(visited) => fs[p] = snap[p]

C7_Witness ==
  /\ Finished
  /\ caught
  /\ badFile = F_readme
  /\ Len(visited) > 0
  /\ fs[F_env] # snap[F_env]
  /\ Contains(fs[M_index], NamePlaceholder)

(***************************************************************************)
(* The second walk's operation on a template.  Under Spec the walk never   *)
(* hands a .env.example to its operation (C1); here the operation          *)
(* (run.mjs:339-359) is applied to the root's template directly, over      *)
(* templates with 0..MaxSecrets secret placeholders, targets present or    *)
(* absent, and every choice of the buffers the entropy source returns.     *)
(***************************************************************************)
InitEnv ==
  /\ fs \in { InitialTree(e, pr, Absent, <<"o", "k">>, k) :
                e \in {Absent, <<"N", "=", "x">>},
                pr \in {Absent, TemplateWith(1)},
                k \in 0..MaxSecrets }
  /\ badFile \in {NoFile, F_prod}
  /\ entropy \in [1..(2 * MaxSecrets) -> RandomBuffers]
  /\ rng = 0
  /\ pc = "env"
  /\ args \in { <<"setup", n>> : n \in {<<"s", "h", "o", "p">>, <<"@", "o", "/", "s">>} }
  /\ runs = 1
  /\ snap = fs
  /\ todo = <<F_example>>
  /\ idx = 1
  /\ subs = 0
  /\ visited = << >>
  /\ out = {}
  /\ caught = FALSE
  /\ exit = NoExit
  /\ prev = "none"
  /\ DeployIdle
  /\ AuxIdle

NextEnv ==
  \/ EnvStep
  \/ EnvDone
  \/ Complete

SpecEnv == InitEnv /\ [][NextEnv]_vars

(***************************************************************************)
(* C6.  An environment file created from a template with k secret          *)
(* placeholders takes k calls of the generator, one per occurrence; each   *)
(* occurrence is replaced by the value of its own call, no placeholder     *)
(* remains, each value is 64 lowercase hexadecimal characters, and two     *)
(* values from different buffers differ.                                   *)
(***************************************************************************)
Created(target) == ~existsSync(snap, target) /\ existsSync(fs, target)

\* secret placeholders of the root's template
SecretCount == Len(Matches(snap[F_example], SecretPlaceholder))

\* generator calls made before target's secrets were generated
DrawsBefore(target) ==
  IF target = F_prod /\ Created(F_env) THEN SecretCount ELSE 0

\* the n-th value inserted in a file created from TemplateWith(k)
Inserted(content, n) ==
  LET start == 2 + Len(newProjectName) + (n - 1) * (3 + 2 * SecretBytes) + 3
  IN  Sub(content, start + 1, start + 2 * SecretBytes)

IsSecret(v) ==
  /\ Len(v) = 64
  /\ \A j \in 1..Len(v) : v[j] \in Digits \cup {"a", "b", "c", "d", "e", "f"}

C6_SecretPerOccurrence ==
  /\ rng = SecretCount * Cardinality({t \in {F_env, F_prod} : Created(t)})
  /\ \A target \in {F_env, F_prod} :
       Created(target) =>
         /\ ~Contains(fs[target], SecretPlaceholder)
         /\ Len(fs[target]) =
              2 + Len(newProjectName) + SecretCount * (3 + 64)
         /\ \A n \in 1..SecretCount :
              /\ IsSecret(Inserted(fs[target], n))
              /\ Inserted(fs[target], n) =
                   generateSecret(entropy[DrawsBefore(target) + n])
         /\ \A m, n \in 1..SecretCount :
              entropy[DrawsBefore(target) + m] # entropy[DrawsBefore(target) + n]
                => Inserted(fs[target], m) # Inserted(fs[target], n)

C6_Witness ==
  /\ Created(F_env)
  /\ Created(F_prod)
  /\ SecretCount = 2
  /\ entropy[1] # entropy[2]
  /\ Inserted(fs[F_env], 1) # Inserted(fs[F_env], 2)
  /\ rng = 4

(***************************************************************************)
(* Vocabulary of the properties of the deployment script.                  *)
(***************************************************************************)
\* the backend loop has ended
BackendLoopOver == dpc \notin {"off", "start", "backend"}

\* the lines the script prints for the backend up to the seed decision
BackendLines ==
  { "Build docker images", "Run backend groups",
    "Waiting for [backend] to become healthy...", "[backend] is healthy",
    "Health check failed" }

(***************************************************************************)
(* C8.  The backend poller makes at most maxRetries + 1 probes and stops   *)
(* at the first 200: after n <= maxRetries failures and a 200 it succeeds  *)
(* on probe n + 1, fetches the same URL once more, and takes the count     *)
(* from that body.                                                         *)
(***************************************************************************)
C8_ProbeBudget ==
  /\ probes[BACKEND_SERVICE] <= MAX_RETRIES + 1
  /\ healthyAt[BACKEND_SERVICE] = 0 =>
       /\ followUps = << >>
       /\ REGION_COUNT = <<0>>
       /\ BackendLoopOver => probes[BACKEND_SERVICE] = MAX_RETRIES + 1
       /\ dpc = "backend" => probes[BACKEND_SERVICE] = loopI
  /\ healthyAt[BACKEND_SERVICE] > 0 =>
       /\ BackendLoopOver
       /\ probes[BACKEND_SERVICE] = healthyAt[BACKEND_SERVICE]
       /\ Len(followUps) = 1
       /\ followUps[1].url = HEALTH_CHECK_URL(BACKEND_SERVICE)
       /\ REGION_COUNT = followUps[1].count

C8_Witness ==
  /\ healthyAt[BACKEND_SERVICE] = MAX_RETRIES + 1
  /\ dpc = "seed"
  /\ REGION_COUNT = <<3>>
  /\ Len(followUps) = 1

CountObserved ==
  IF healthyAt[BACKEND_SERVICE] > 0 /\ Len(followUps) = 1
  THEN followUps[1].count ELSE << >>

C10_SeedDecidedOnce ==
  /\ dpc \in {"start", "backend", "seed"} => decisions = 0 /\ seedRuns = 0
  /\ dpc \in {"storefrontStart", "storefront", "prune", "done"} =>
       /\ decisions = 1
       /\ seedRuns = IF CountObserved # << >> /\ CountObserved[1] > 0
                     THEN 0 ELSE 1
       /\ seedRuns = 1 <=> "Initialize seed data" \in dout
       /\ seedRuns = 0 <=> "The application already has data" \in dout

C10_Witness ==
  /\ dpc = "done"
  /\ decisions = 1
  /\ seedRuns = 0
  /\ CountObserved = <<3>>
  /\ healthyAt[BACKEND_SERVICE] > 1

(***************************************************************************)
(* C11.  A probe that fails at the network level (curl prints 000) does    *)
(* not end the loop of either service: it takes one attempt of the budget  *)
(* and changes nothing else, as a probe answered with another status than  *)
(* 200 does, and the loop goes on to its next attempt or, the budget of    *)
(* maxRetries + 1 attempts spent, to its end.                              *)
(***************************************************************************)
\* a probe was made in this step
ProbeMade == probes' # probes

\* the step spent one attempt of the loop and left the loop running
OneAttemptSpent ==
  /\ loopI' = loopI + 1
  /\ dpc' = dpc
  /\ \E s \in {BACKEND_SERVICE, STOREFRONT_SERVICE} :
       /\ dpc = s
       /\ probes' = [probes EXCEPT ![s] = @ + 1]
  /\ UNCHANGED <<mode, REGION_COUNT, healthyAt, followUps, decisions, seedRuns>>
  /\ UNCHANGED <<setupVars, auxVars>>

C11_NetworkErrorSpendsOneAttempt ==
  /\ [](\A s \in {BACKEND_SERVICE, STOREFRONT_SERVICE} :
          /\ probes[s] <= MAX_RETRIES + 1
          /\ (dpc = s /\ healthyAt[s] = 0) => probes[s] = loopI)
  /\ [][(ProbeMade /\ response' # 200) => OneAttemptSpent]_vars
  /\ [][(ProbeMade /\ response' = 0) =>
          /\ OneAttemptSpent
          /\ dout' \ dout \subseteq
               {"Health check failed", "Health check failed (storefront)"}]_vars

\* the storefront loop is still running after an attempt that failed at the
\* network level, with one attempt of its budget left
C11_Witness ==
  /\ dpc = STOREFRONT_SERVICE
  /\ response = 0
  /\ healthyAt[STOREFRONT_SERVICE] = 0
  /\ probes[STOREFRONT_SERVICE] = MAX_RETRIES
  /\ loopI = MAX_RETRIES
  /\ LoopGuard(loopI)

(***************************************************************************)
(* version_compare of the macOS setup script.  The script runs on macOS    *)
(* only (it exits unless uname is Darwin).                                 *)
(***************************************************************************)
Least(S) == CHOOSE x \in S : \A y \in S : x <= y

\* sed -E 's/^[vV]?//; s/[^0-9.].*$//': one leading v or V goes, then
\* everything from the first character that is no digit and no dot
sedVersion(s) ==
  LET t == IF s = << >> THEN s
           ELSE IF s[1] \in {"v", "V"} THEN Tail(s) ELSE s
      bad == { i \in 1..Len(t) : t[i] \notin Digits \cup {"."} }
  IN  IF bad = {} THEN t ELSE Sub(t, 1, Least(bad) - 1)

RECURSIVE readArray(_)
\* IFS='.' read -ra: the fields between the dots; a dot at the end ends the
\* last field and starts no new one
readArray(s) ==
  IF s = << >> THEN << >>
  ELSE LET dots == { i \in 1..Len(s) : s[i] = "." }
       IN  IF dots = {} THEN <<s>>
           ELSE <<Sub(s, 1, Least(dots) - 1)>>
                  \o readArray(Sub(s, Least(dots) + 1, Len(s)))

\* ${VER2[i]} after lines 48-50: an unset or empty component is 0
VER2At(VER2, i) == IF i > Len(VER2) THEN 0 ELSE Base10(VER2[i])

RECURSIVE compareFrom(_, _, _)
\* the loop over the first list from its i-th component on (lines 47-57),
\* then the test of the lengths (lines 59-63)
compareFrom(VER1, VER2, i) ==
  IF i > Len(VER1)
  THEN IF Len(VER1) < Len(VER2) THEN 2 ELSE 0
  ELSE IF Base10(VER1[i]) > VER2At(VER2, i) THEN 1
       ELSE IF Base10(VER1[i]) < VER2At(VER2, i) THEN 2
       ELSE compareFrom(VER1, VER2, i + 1)

\* returns 0 (equal), 1 (the first is greater) or 2 (the first is less)
version_compare(a, b) ==
  compareFrom(readArray(sedVersion(a)), readArray(sedVersion(b)), 1)

\* version strings given to version_compare: every component has a digit
VersionStrings ==
  { <<"1", ".", "2">>,
    <<"1", ".", "2", ".", "0">>,
    <<"1", ".", "2", ".", "1">>,
    <<"v", "1", ".", "2", ".", "3">>,
    <<"9", ".", "5">>,
    <<"9", ".", "5", ".", "0">>,
    <<"V", "9", ".", "5">>,
    <<"1", ".", "1", "0">>,
    <<"1", ".", "9">>,
    <<"0", "9", ".", "5">>,
    <<"1", ".", "2", "-", "b", "3">>,
    <<"1", "0">> }

\* version_compare "$1" "$2" returns
VersionCompare ==
  /\ verArgs # << >>
  /\ verResult = NoExit
  /\ verResult' = version_compare(verArgs[1], verArgs[2])
  /\ UNCHANGED verArgs
  /\ UNCHANGED <<setupVars, deployVars, hostVars, makeVars>>

InitVersion ==
  /\ SetupIdle
  /\ DeployIdle
  /\ HostIdle
  /\ MakeIdle
  /\ verArgs \in VersionStrings \X VersionStrings
  /\ verResult = NoExit

NextVersion == VersionCompare

SpecVersion == InitVersion /\ [][NextVersion]_vars

(***************************************************************************)
(* C12.  For every pair of version strings, version_compare returns the    *)
(* result of comparing the two dot-separated component lists as unsigned   *)
(* integers with the shorter list zero-padded on the right, after the      *)
(* leading v/V and the trailing non-numeric suffix are stripped.           *)
(***************************************************************************)
\* the i-th component of a list padded with zeros
PaddedAt(l, i) == IF i > Len(l) THEN 0 ELSE Base10(l[i])

\* 0, 1 or 2: the zero-padded lists are equal, the first is greater, less
PaddedCompare(l1, l2) ==
  LET n == IF Len(l1) > Len(l2) THEN Len(l1) ELSE Len(l2)
      diff == { i \in 1..n : PaddedAt(l1, i) # PaddedAt(l2, i) }
  IN  IF diff = {} THEN 0
      ELSE IF PaddedAt(l1, Least(diff)) > PaddedAt(l2, Least(diff)) THEN 1
      ELSE 2

Components(s) == readArray(sedVersion(s))

Returned == verResult # NoExit

C12_ZeroPaddedCompare ==
  Returned =>
    verResult = PaddedCompare(Components(verArgs[1]), Components(verArgs[2]))

\* equal when zero-padded, reported as less
C12_Witness ==
  /\ verArgs = << <<"9", ".", "5">>, <<"9", ".", "5", ".", "0">> >>
  /\ verResult = 2
  /\ PaddedCompare(Components(verArgs[1]), Components(verArgs[2])) = 0

(***************************************************************************)
(* `check`: checkToolVersions (run.mjs:178-271).  The minimum-version      *)
(* variables of the environment are not set.  run() throws from its stderr *)
(* listener (run.mjs:37-40), outside any try block and any promise: a      *)
(* command that writes to stderr ends the process with an uncaught         *)
(* exception, status 1.                                                    *)
(***************************************************************************)
\* the elements of a destructured array that are not there
undefined == <<"undefined">>

\* what Number gives for text that is no number
NaN == 0 - 1

\* a command the shell did not find: nothing on stdout, a line on stderr
Missing == <<"command not found">>

Whitespace == {" ", "\n"}

\* String.prototype.trim
trim(s) ==
  LET ink == { i \in 1..Len(s) : s[i] \notin Whitespace }
  IN  IF ink = {} THEN << >>
      ELSE Sub(s, Least(ink), CHOOSE x \in ink : \A y \in ink : y <= x)

RECURSIVE split(_, _)
\* String.prototype.split with a one-character separator
split(s, sep) ==
  LET at == { i \in 1..Len(s) : s[i] = sep }
  IN  IF at = {} THEN <<s>>
      ELSE <<Sub(s, 1, Least(at) - 1)>> \o split(Sub(s, Least(at) + 1, Len(s)), sep)

\* arr[i - 1] of JavaScript
elementAt(arr, i) == IF i > Len(arr) THEN undefined ELSE arr[i]

\* the unary plus of `+nodeMajor`
Number(c) ==
  IF c = undefined THEN NaN
  ELSE IF \A i \in 1..Len(c) : c[i] \in Digits THEN Base10(c) ELSE NaN

\* a < b of JavaScript, b a number: false when a is NaN
lessThan(a, b) == IF a = NaN THEN FALSE ELSE a < b

\* the defaults of run.mjs:185, 189, 193
minNodeVersion == <<20, 16>>

minPnpmVersion == <<9, 5>>

minDockerVersion == <<26, 1>>

\* the mutant of the version test that looks at the major number only
outdatedMajorOnly(version, min) ==
  lessThan(Number(elementAt(version, 1)), min[1])

\* the test of run.mjs:201-204, 224-227, 253-257
outdated(version, min) ==
  \/ lessThan(Number(elementAt(version, 1)), min[1])
  \/ /\ Number(elementAt(version, 1)) = min[1]
     /\ lessThan(Number(elementAt(version, 2)), min[2])

\* an entry of the log of commands: the command, the names given to it, and
\* whether it wrote to stderr
Command(c, a, e) == [cmd |-> c, args |-> a, stderr |-> e]

UncaughtError == "Uncaught Error"

\* the state a handler leaves: what it read, printed and ran, and how the
\* process ended (NoExit: the handler returned to main)
CheckResult(d, o, i, e) == [detected |-> d, out |-> o, issued |-> i, exit |-> e]

\* run.mjs:247-270
checkDocker(det, o, i, dockerOut) ==
  LET d == [det EXCEPT !.docker = dockerOut]
      ran == Append(i, Command("docker --version", {}, dockerOut = Missing))
      words == split(trim(dockerOut), " ")
  IN  IF dockerOut = Missing
      THEN CheckResult(d, o \cup {UncaughtError}, ran, 1)
      ELSE IF Len(words) < 3
      THEN CheckResult(d, o \cup {"error: docker is not installed"}, ran, 1)
      ELSE IF outdated(split(words[3], "."), minDockerVersion)
      THEN CheckResult(d, o \cup {"error: docker version 26.0.0 or higher is required"},
                       ran, 1)
      ELSE CheckResult(d, o \cup {"found docker"}, ran, NoExit)

\* run.mjs:221-245, then the docker test
checkPnpm(det, o, i, pnpmOut, dockerOut, updateWrites) ==
  LET d == [det EXCEPT !.pnpm = pnpmOut]
      ran == Append(i, Command("pnpm --version", {}, pnpmOut = Missing))
      warn == "warn: pnpm version 9.5 or higher is required; attempting to update"
  IN  IF pnpmOut = Missing
      THEN CheckResult(d, o \cup {UncaughtError}, ran, 1)
      ELSE IF outdated(split(trim(pnpmOut), "."), minPnpmVersion)
      THEN IF updateWrites
           THEN CheckResult(d, o \cup {warn, UncaughtError},
                            Append(ran, Command("pnpm install -g pnpm@latest", {}, TRUE)), 1)
           ELSE checkDocker(d, o \cup {warn, "notice: updated pnpm to the latest version"},
                            Append(ran, Command("pnpm install -g pnpm@latest", {}, FALSE)),
                            dockerOut)
      ELSE checkDocker(d, o \cup {"found pnpm"}, ran, dockerOut)

\* run.mjs:195-219, then the pnpm and docker tests
checkToolVersions(o, i, nodeOut, pnpmOut, dockerOut, updateWrites) ==
  LET d == [NoTools EXCEPT !.node = nodeOut]
      ran == Append(i, Command("node --version", {}, FALSE))
  IN  IF outdated(split(trim(Tail(nodeOut)), "."), minNodeVersion)
      THEN CheckResult(d, o \cup {"error: node version 20.16 or higher is required"},
                       ran, 1)
      ELSE checkPnpm(d, o \cup {"found node"}, ran, pnpmOut, dockerOut, updateWrites)

\* what `node --version` prints
NodeOutputs ==
  { <<"v">> \o v \o <<"\n">> :
      v \in { <<"2", "0", ".", "1", "6", ".", "0">>,
              <<"2", "0", ".", "1", "5", ".", "1">>,
              <<"1", "8", ".", "2", "0", ".", "4">>,
              <<"2", "2", ".", "3", ".", "0">> } }

\* what `pnpm --version` prints
PnpmOutputs ==
  { v \o <<"\n">> :
      v \in { <<"9", ".", "5", ".", "0">>,
              <<"9", ".", "4", ".", "0">>,
              <<"8", ".", "1", "5", ".", "9">>,
              <<"1", "0", ".", "0", ".", "0">> } }

\* what `docker --version` prints
DockerOutputs ==
  { <<"D", "o", "c", "k", "e", "r", " ", "v", "e", "r", "s", "i", "o", "n", " ">>
      \o v \o <<",", " ", "b", "u", "i", "l", "d", " ", "4", "c", "f", "5", "a", "f", "a", "\n">> :
      v \in { <<"2", "6", ".", "1", ".", "0">>,
              <<"2", "6", ".", "0", ".", "2">>,
              <<"2", "5", ".", "0", ".", "5">>,
              <<"2", "7", ".", "1", ".", "1">> } }

(***************************************************************************)
(* The docker host, and `clean` and `clean:all` of run.mjs                 *)
(* (run.mjs:374-455).  Names are sequences of characters.  What a docker   *)
(* command does is docker's: of each command the model keeps the removals  *)
(* it asks for.                                                            *)
(***************************************************************************)
\* process.env.COMPOSE_PROJECT_NAME, read from .env (run.mjs:8)
COMPOSE_PROJECT_NAME == <<"s", "h", "o", "p">>

\* `${composeProjectName}_postgres_data` (run.mjs:386)
postgresVolume ==
  COMPOSE_PROJECT_NAME
    \o <<"_", "p", "o", "s", "t", "g", "r", "e", "s", "_", "d", "a", "t", "a">>

V_cache == <<"s", "h", "o", "p", "_", "c", "a", "c", "h", "e">>

\* the database volume of another compose project on the same host
V_other ==
  <<"b", "l", "o", "g", "_", "p", "o", "s", "t", "g", "r", "e", "s", "_", "d", "a", "t", "a">>

AllVolumes == {postgresVolume, V_cache, V_other}

I_backend ==
  <<"s", "h", "o", "p", "-", "b", "a", "c", "k", "e", "n", "d", ":",
    "l", "a", "t", "e", "s", "t">>

\* an image of another project
I_other ==
  <<"b", "l", "o", "g", "-", "w", "e", "b", ":", "l", "a", "t", "e", "s", "t">>

AllImages == {I_backend, I_other}

\* String.prototype.startsWith, and grep "^prefix" on a line
startsWith(s, prefix) == Sub(s, 1, Len(prefix)) = prefix

\* String.prototype.toLowerCase, on the letters of the answers
toLowerCase(s) ==
  [i \in 1..Len(s) |->
     CASE s[i] = "Y" -> "y"
       [] s[i] = "N" -> "n"
       [] OTHER -> s[i]]

\* what is typed at the confirmation prompt
Answers == { <<"y">>, <<"Y">>, <<"n">>, << >>, <<"y", "e", "s">>, <<" ", "y">> }

\* `--preserve-db`
PreserveDb == <<"-", "-", "p", "r", "e", "s", "e", "r", "v", "e", "-", "d", "b">>

\* the volumes and images of the compose project: named after it
ProjectVolumes(vs) == { v \in vs : startsWith(v, COMPOSE_PROJECT_NAME \o <<"_">>) }

ProjectImages(is) == { i \in is : startsWith(i, COMPOSE_PROJECT_NAME) }

\* most external commands a handler runs
MaxCommands == 7

\* the host and the process while a handler runs (exit NoExit: running)
Host(v, im, i, o) == [volumes |-> v, images |-> im, issued |-> i, out |-> o, exit |-> NoExit]

\* the volumes and images left by a command that did what it was asked
Effect(st, c, a) ==
  CASE c = "docker volume rm" ->
         [volumes |-> st.volumes \ a, images |-> st.images]
    [] c = "docker rmi" ->
         [volumes |-> st.volumes, images |-> st.images \ a]
    [] c = "docker compose down -v --rmi all" ->
         [volumes |-> st.volumes \ ProjectVolumes(st.volumes),
          images |-> st.images \ ProjectImages(st.images)]
    [] c = "docker system prune -af --volumes" ->
         [volumes |-> st.volumes, images |-> {}]
    [] OTHER -> [volumes |-> st.volumes, images |-> st.images]

\* run (run.mjs:21-46) of the n-th command of the handler: the command
\* stderrAt writes to stderr, which ends the process (run.mjs:37-40), having
\* done its work (took) or not
run(st, c, a, stderrAt, took) ==
  IF st.exit # NoExit THEN st
  ELSE LET noisy == Len(st.issued) + 1 = stderrAt
           after == IF noisy /\ ~took
                    THEN [volumes |-> st.volumes, images |-> st.images]
                    ELSE Effect(st, c, a)
       IN  [volumes |-> after.volumes,
            images |-> after.images,
            issued |-> Append(st.issued, Command(c, a, noisy)),
            out |-> IF noisy THEN st.out \cup {UncaughtError} ELSE st.out,
            exit |-> IF noisy THEN 1 ELSE NoExit]

\* console.log, if the process still runs
log(st, line) == IF st.exit # NoExit THEN st ELSE [st EXCEPT !.out = @ \cup {line}]

\* run with its arguments only if there are any (run.mjs:395, 401, 409)
runIfAny(st, c, a, stderrAt, took) ==
  IF a = {} THEN st ELSE run(st, c, a, stderrAt, took)

\* the mutant of the volumes to remove that keeps nothing back
volumesToRemoveAll(vs, preserveDb) == vs

\* run.mjs:394 and 400-402
volumesToRemove(vs, preserveDb) ==
  IF preserveDb THEN { v \in vs : v # postgresVolume } ELSE vs

\* the mutant of the confirmation that takes every answer but n
confirmedUnlessNo(answer) == toLowerCase(answer) # <<"n">>

\* ans.toLowerCase() === "y" (run.mjs:379, 430)
confirmed(answer) == toLowerCase(answer) = <<"y">>

\* clean (run.mjs:374-420)
clean(st, answer, preserveDb, stderrAt, took) ==
  IF ~confirmed(answer) THEN st
  ELSE LET s1 == run(st, "docker compose down --remove-orphans", {}, stderrAt, took)
           s2 == log(s1, IF preserveDb
                         THEN "preserving PostgreSQL volume and removing other volumes"
                         ELSE "removing all volumes")
           s3 == run(s2, "docker volume ls -q", {}, stderrAt, took)
           s4 == runIfAny(s3, "docker volume rm",
                          volumesToRemove(s3.volumes, preserveDb), stderrAt, took)
           s5 == log(s4, "removing all project-specific images")
           s6 == run(s5, "docker images", {}, stderrAt, took)
           s7 == runIfAny(s6, "docker rmi", ProjectImages(s6.images), stderrAt, took)
       IN  log(s7, "cleanup completed")

\* cleanAll (run.mjs:425-455)
cleanAll(st, answer, stderrAt, took) ==
  IF ~confirmed(answer) THEN st
  ELSE LET s1 == run(st, "docker compose down -v --rmi all", {}, stderrAt, took)
           s2 == run(s1, "docker container prune -f", {}, stderrAt, took)
           s3 == run(s2, "docker volume ls -q -f name", {}, stderrAt, took)
           s4 == runIfAny(s3, "docker volume rm", ProjectVolumes(s3.volumes),
                          stderrAt, took)
           s5 == run(s4, "docker volume ls -q", {}, stderrAt, took)
           s6 == runIfAny(s5, "docker volume rm", s5.volumes, stderrAt, took)
           s7 == run(s6, "docker system prune -af --volumes", {}, stderrAt, took)
       IN  log(s7, "full cleanup completed")

\* the command lines of run.mjs on a host with docker
HostCommandLines ==
  { << >>, <<"help">>, <<"bogus">>, <<"check">>, <<"setup">>,
    <<"setup", <<"s", "h", "o", "p">>>>,
    <<"setup", <<"S", "h", "o", "p">>>>,
    <<"setup", <<"s", "h", "o", "p", ".">>>>,
    <<"setup", <<"~", "x">>>>,
    <<"clean">>, <<"clean", PreserveDb>>, <<"clean:all">> }

\* run.mjs is started on the host
InvokeOnHost ==
  /\ pc = "idle"
  /\ runs = 0
  /\ shpc = "off"
  /\ \E a \in HostCommandLines : Start(a)
  /\ prev' = "none"

\* after `setup` has ended, run.mjs is started again in the same directory
\* with `clean` or `clean:all`
InvokeAfterSetup ==
  /\ pc = "idle"
  /\ runs = 1
  /\ shpc = "off"
  /\ IF Len(args) = 0 THEN FALSE ELSE args[1] = "setup"
  /\ \E a \in {<<"clean">>, <<"clean:all">>} : Start(a)
  /\ prev' = IF exit = 0 /\ ~caught /\ "Project setup complete" \in out
             THEN "complete" ELSE "other"

\* `check`: checkToolVersions, then main's finally (run.mjs:479-481, 504-506)
Check ==
  /\ pc = "check"
  /\ \E n \in NodeOutputs, p \in PnpmOutputs \cup {Missing},
        d \in DockerOutputs \cup {Missing}, w \in BOOLEAN :
       LET r == checkToolVersions(out, issued, n, p, d, w)
       IN  /\ detected' = r.detected
           /\ issued' = r.issued
           /\ out' = r.out
           /\ exit' = IF r.exit = NoExit THEN 0 ELSE r.exit
  /\ pc' = "idle"
  /\ UNCHANGED <<fs, badFile, entropy, rng, args, runs, snap, todo, idx, subs,
                 visited, caught, prev>>
  /\ UNCHANGED <<volumes, images, ans>>
  /\ UNCHANGED <<deployVars, makeVars, versionVars>>

\* args[1] === "--preserve-db" (run.mjs:492)
preserveDbGiven == IF Len(args) < 2 THEN FALSE ELSE args[2] = PreserveDb

\* `clean`, then main's finally (run.mjs:491-493, 504-506)
Clean ==
  /\ pc = "clean"
  /\ \E a \in Answers, k \in 0..MaxCommands, took \in BOOLEAN :
       LET st == clean(Host(volumes, images, issued, out), a, preserveDbGiven, k, took)
       IN  /\ ans' = Append(ans, a)
           /\ volumes' = st.volumes
           /\ images' = st.images
           /\ issued' = st.issued
           /\ out' = st.out
           /\ exit' = IF st.exit = NoExit THEN 0 ELSE st.exit
  /\ pc' = "idle"
  /\ UNCHANGED <<fs, badFile, entropy, rng, args, runs, snap, todo, idx, subs,
                 visited, caught, prev>>
  /\ UNCHANGED detected
  /\ UNCHANGED <<deployVars, makeVars, versionVars>>

\* `clean:all`, then main's finally (run.mjs:494-496, 504-506)
CleanAll ==
  /\ pc = "cleanAll"
  /\ \E a \in Answers, k \in 0..MaxCommands, took \in BOOLEAN :
       LET st == cleanAll(Host(volumes, images, issued, out), a, k, took)
       IN  /\ ans' = Append(ans, a)
           /\ volumes' = st.volumes
           /\ images' = st.images
           /\ issued' = st.issued
           /\ out' = st.out
           /\ exit' = IF st.exit = NoExit THEN 0 ELSE st.exit
  /\ pc' = "idle"
  /\ UNCHANGED <<fs, badFile, entropy, rng, args, runs, snap, todo, idx, subs,
                 visited, caught, prev>>
  /\ UNCHANGED detected
  /\ UNCHANGED <<deployVars, makeVars, versionVars>>

(***************************************************************************)
(* make-scripts.sh: setup-env, clean, clean-preserve-db, clean-all.  The   *)
(* script has no `set -e`; its docker commands are taken to do what they   *)
(* are asked.                                                              *)
(***************************************************************************)
\* the script while it runs: the tree, the host, what it printed, and its
\* exit status once it has exited
Script(f, v, im, i, o) ==
  [fs |-> f, volumes |-> v, images |-> im, issued |-> i, out |-> o, exit |-> NoExit]

\* echo, if the script still runs
echo(st, line) == IF st.exit # NoExit THEN st ELSE [st EXCEPT !.out = @ \cup {line}]

\* a docker command of the script
docker(st, c, a) ==
  IF st.exit # NoExit THEN st
  ELSE [st EXCEPT !.volumes = Effect(st, c, a).volumes,
                  !.images = Effect(st, c, a).images,
                  !.issued = Append(@, Command(c, a, FALSE))]

\* xargs -r: the command runs only if there is an argument
xargs(st, c, a) == IF a = {} THEN st ELSE docker(st, c, a)

\* the mutant of the creation of a target that copies over an existing file
createTargetOver(st, target) ==
  IF st.exit # NoExit THEN st
  ELSE IF existsSync(st.fs, F_example)
  THEN echo([st EXCEPT !.fs = [@ EXCEPT ![target] = st.fs[F_example]]],
            "file created from .env.example")
  ELSE [echo(st, "Error: .env.example file not found") EXCEPT !.exit = 1]

\* make-scripts.sh:10-20 for .env, 22-32 for .env.production
createTarget(st, target) ==
  IF st.exit # NoExit THEN st
  ELSE IF existsSync(st.fs, target)
  THEN echo(st, "file already exists. Skipping creation.")
  ELSE IF existsSync(st.fs, F_example)
  THEN echo([st EXCEPT !.fs = [@ EXCEPT ![target] = st.fs[F_example]]],
            "file created from .env.example")
  ELSE [echo(st, "Error: .env.example file not found") EXCEPT !.exit = 1]

\* how the steps after the environment files end (make-scripts.sh:34-56)
InstallOutcomes == {"no node", "pnpm install failed", "installed"}

\* setup_env (make-scripts.sh:9-57)
setup_env(st, outcome) ==
  LET s1 == createTarget(st, F_env)
      s2 == createTarget(s1, F_prod)
  IN  IF s2.exit # NoExit THEN s2
      ELSE IF outcome = "no node"
      THEN [echo(s2, "Error: Node.js is not installed") EXCEPT !.exit = 1]
      ELSE IF outcome = "pnpm install failed"
      THEN [echo(docker(s2, "pnpm install", {}), "Error: pnpm install failed")
              EXCEPT !.exit = 1]
      ELSE echo(docker(s2, "pnpm install", {}), "Environment setup complete.")

\* read -r ans: the line typed, less the blanks around it
\* (make-scripts.sh:101, 131)
readR(line) == trim(line)

\* [[ "${ans:-N}" = y ]] (make-scripts.sh:102, 132)
answeredY(answer) == readR(answer) = <<"y">>

\* clean (make-scripts.sh:98-126)
shClean(st, answer, preserve_db) ==
  IF ~answeredY(answer) THEN st
  ELSE LET s1 == docker(st, "docker compose down --remove-orphans", {})
           s2 == docker(s1, "docker volume ls -q", {})
           s3 == IF preserve_db
                 THEN xargs(s2, "docker volume rm",
                            { v \in s2.volumes : v # postgresVolume })
                 ELSE docker(s2, "docker volume rm", s2.volumes)
           s4 == docker(s3, "docker images", {})
           s5 == xargs(s4, "docker rmi", ProjectImages(s4.images))
       IN  echo(s5, "Cleanup completed.")

\* clean_all (make-scripts.sh:129-139)
shCleanAll(st, answer) ==
  IF ~answeredY(answer) THEN st
  ELSE LET s1 == docker(st, "docker compose down -v --rmi all", {})
           s2 == docker(s1, "docker container prune -f", {})
           s3 == docker(s2, "docker volume ls -q -f name", {})
           s4 == docker(s3, "docker volume rm", ProjectVolumes(s3.volumes))
           s5 == docker(s4, "docker volume ls -q", {})
           s6 == xargs(s5, "docker volume rm", s5.volumes)
       IN  docker(s6, "docker system prune -af --volumes", {})

\* the first argument of make-scripts.sh
ShCommands == {"setup-env", "clean", "clean-preserve-db", "clean-all", "bogus"}

\* make-scripts.sh is started on the host
ShInvoke ==
  /\ pc = "idle"
  /\ runs = 0
  /\ shpc = "off"
  /\ shpc' = "main"
  /\ \E c \in ShCommands : shargs' = <<c>>
  /\ UNCHANGED <<shexit, shout>>
  /\ UNCHANGED <<setupVars, deployVars, hostVars, versionVars>>

\* the script ends as st says
ShEnd(st) ==
  /\ shpc' = "done"
  /\ fs' = st.fs
  /\ volumes' = st.volumes
  /\ images' = st.images
  /\ issued' = st.issued
  /\ shout' = st.out
  /\ shexit' = IF st.exit = NoExit THEN 0 ELSE st.exit
  /\ UNCHANGED <<badFile, entropy, rng, runVars, detected, shargs>>
  /\ UNCHANGED <<deployVars, versionVars>>

\* make-scripts.sh setup-env (lines 158-160)
ShSetupEnv ==
  /\ shpc = "main"
  /\ shargs = <<"setup-env">>
  /\ \E outcome \in InstallOutcomes :
       ShEnd(setup_env(Script(fs, volumes, images, issued, shout), outcome))
  /\ UNCHANGED ans

\* make-scripts.sh clean and clean-preserve-db (lines 164-169)
ShClean ==
  /\ shpc = "main"
  /\ shargs \in {<<"clean">>, <<"clean-preserve-db">>}
  /\ \E a \in Answers :
       /\ ans' = Append(ans, a)
       /\ ShEnd(shClean(Script(fs, volumes, images, issued, shout), a,
                        shargs = <<"clean-preserve-db">>))

\* make-scripts.sh clean-all (lines 170-172)
ShCleanAll ==
  /\ shpc = "main"
  /\ shargs = <<"clean-all">>
  /\ \E a \in Answers :
       /\ ans' = Append(ans, a)
       /\ ShEnd(shCleanAll(Script(fs, volumes, images, issued, shout), a))

\* any other argument: the usage, exit 1 (lines 176-185)
ShUsage ==
  /\ shpc = "main"
  /\ shargs \notin {<<"setup-env">>, <<"rename">>, <<"clean">>,
                    <<"clean-preserve-db">>, <<"clean-all">>, <<"create-admin">>}
  /\ shpc' = "done"
  /\ shexit' = 1
  /\ shout' = shout \cup {"Usage"}
  /\ UNCHANGED shargs
  /\ UNCHANGED <<setupVars, deployVars, hostVars, versionVars>>

(***************************************************************************)
(* One command of run.mjs or of make-scripts.sh on a host: project trees   *)
(* with and without the environment files and the template, every set of   *)
(* the volumes and images of two compose projects.                         *)
(***************************************************************************)
HostTrees ==
  { [InitialTree(e, pr, Absent, <<"#">> \o NamePlaceholder, 1)
       EXCEPT ![F_example] = x] :
      e \in {Absent, <<"N", "=", "x">>},
      pr \in {Absent, <<"N", "=", "y">>},
      x \in {Absent, TemplateWith(1)} }

\* a project that was set up: .env is there
SetUpTree ==
  InitialTree(<<"N", "=", "x">>, Absent, Absent, <<"#">> \o NamePlaceholder, 1)

InitCommands ==
  /\ \/ /\ fs \in HostTrees
        /\ badFile \in {NoFile, M_index}
        /\ volumes = AllVolumes
        /\ images = AllImages
     \/ /\ fs = SetUpTree
        /\ badFile = NoFile
        /\ volumes \in SUBSET AllVolumes
        /\ images \in SUBSET AllImages
  /\ entropy = FixedEntropy
  /\ rng = 0
  /\ pc = "idle"
  /\ args = << >>
  /\ runs = 0
  /\ snap = fs
  /\ todo = << >>
  /\ idx = 1
  /\ subs = 0
  /\ visited = << >>
  /\ out = {}
  /\ caught = FALSE
  /\ exit = NoExit
  /\ prev = "none"
  /\ DeployIdle
  /\ issued = << >>
  /\ ans = << >>
  /\ detected = NoTools
  /\ MakeIdle
  /\ VersionIdle

NextCommands ==
  \/ InvokeOnHost
  \/ InvokeAfterSetup
  \/ Main
  \/ RenameStep
  \/ RenameDone
  \/ EnvStep
  \/ EnvDone
  \/ Complete
  \/ Check
  \/ Clean
  \/ CleanAll
  \/ ShInvoke
  \/ ShSetupEnv
  \/ ShClean
  \/ ShCleanAll
  \/ ShUsage

SpecCommands == InitCommands /\ [][NextCommands]_vars

(***************************************************************************)
(* Vocabulary of the properties of the commands.                           *)
(***************************************************************************)
\* run.mjs has ended, and its command was c
Ran(c) == Finished /\ (IF Len(args) = 0 THEN FALSE ELSE args[1] = c)

\* the version number in the output of a --version command
VersionIn(output) ==
  LET first == Least({ i \in 1..Len(output) : output[i] \in Digits })
  IN  readArray(sedVersion(Sub(output, first, Len(output))))

\* `check` ran the tool's --version command
Probed(tool) == detected[tool] # << >>

\* `check` found the tool, at a version below major.minor
Below(tool, major, minor) ==
  IF Probed(tool) /\ detected[tool] # Missing
  THEN LET v == VersionIn(detected[tool])
       IN  \/ Base10(v[1]) < major
           \/ Base10(v[1]) = major /\ Base10(v[2]) < minor
  ELSE FALSE

\* `check` found the tool missing
NotInstalled(tool) == detected[tool] = Missing

\* `check` ran the update of pnpm
PnpmUpdated == \E i \in 1..Len(issued) : issued[i].cmd = "pnpm install -g pnpm@latest"

\* a command of the handler wrote to stderr
WroteToStderr == \E i \in 1..Len(issued) : issued[i].stderr

(***************************************************************************)
(* C13.  With no minimum-version variables set, `check` applies the        *)
(* defaults node >= 20.16, pnpm >= 9.5, docker >= 26.1 (major, then        *)
(* minor); whenever one of the three detected versions is below its        *)
(* minimum, `check` ends with exit status 1, and it exits 0 only when all  *)
(* three meet their minimum.                                               *)
(***************************************************************************)
C13_OutdatedToolIsFatal ==
  Ran("check") =>
    /\ (Below("node", 20, 16) \/ Below("pnpm", 9, 5) \/ Below("docker", 26, 1))
         => exit = 1
    /\ exit = 0 =>
         \A tool \in {"node", "pnpm", "docker"} :
           Probed(tool) /\ ~NotInstalled(tool)
    /\ exit = 0 =>
         ~Below("node", 20, 16) /\ ~Below("pnpm", 9, 5) /\ ~Below("docker", 26, 1)

\* C13 as amended: node or docker below its minimum, or a tool that is not
\* installed, ends `check` with status 1 (a node below 20.16 before the
\* other tools are looked at); a pnpm below 9.5 is not fatal: `check` warns,
\* runs `pnpm install -g pnpm@latest` and goes on to docker, so that it
\* exits 0 exactly when node and docker meet their minimum, all three tools
\* are installed and, pnpm being below 9.5, the update wrote nothing to
\* stderr
C13_OutdatedNodeOrDockerIsFatal ==
  Ran("check") =>
    /\ exit \in {0, 1}
    /\ Below("node", 20, 16) =>
         /\ exit = 1
         /\ "error: node version 20.16 or higher is required" \in out
         /\ ~Probed("pnpm") /\ ~Probed("docker")
    /\ Below("docker", 26, 1) =>
         /\ exit = 1
         /\ "error: docker version 26.0.0 or higher is required" \in out
    /\ Below("pnpm", 9, 5) =>
         /\ "warn: pnpm version 9.5 or higher is required; attempting to update" \in out
         /\ PnpmUpdated
    /\ ~Below("pnpm", 9, 5) => ~PnpmUpdated
    /\ exit = 0 <=>
         /\ \A tool \in {"node", "pnpm", "docker"} :
              Probed(tool) /\ ~NotInstalled(tool)
         /\ ~Below("node", 20, 16)
         /\ ~Below("docker", 26, 1)
         /\ ~WroteToStderr

\* `check` exits 0 with a pnpm below 9.5
C13_Witness ==
  /\ Ran("check")
  /\ exit = 0
  /\ Below("pnpm", 9, 5)
  /\ Probed("docker")
  /\ PnpmUpdated

(***************************************************************************)
(* C14.  The dispatcher ends with exit status 1 when no command is given,  *)
(* when the command is unknown, when `setup` is given no name or an        *)
(* invalid one, and on any unrecoverable error of the command, a file      *)
(* read/write failure during `setup` and a failed docker step during       *)
(* `clean` included; it ends with 0 only when the command succeeded.       *)
(***************************************************************************)
Commands == {"help", "check", "setup", "clean", "clean:all"}

NoCommand == Len(args) = 0

UnknownCommand == IF NoCommand THEN FALSE ELSE args[1] \notin Commands

\* the command is one that needs .env, and .env was not there
Gated ==
  IF NoCommand THEN FALSE
  ELSE args[1] \notin {"help", "check", "setup"} /\ ~existsSync(snap, F_env)

SetupWithoutName == IsSetup /\ noProjectName

SetupWithInvalidName ==
  IF IsSetup /\ ~noProjectName THEN InvalidName(newProjectName) ELSE FALSE

\* a file could not be read or written during `setup`
FileFailure == IsSetup /\ caught

C14_ErrorsExitOne ==
  Finished =>
    /\ (NoCommand \/ UnknownCommand \/ SetupWithoutName \/ SetupWithInvalidName)
         => exit = 1
    /\ (FileFailure \/ WroteToStderr) => exit = 1
    /\ exit \in {0, 1}
(***************************************************************************)
(* C15: the database volume under `clean --preserve-db`.                   *)
(***************************************************************************)
\* the volume removals among the commands i from the n-th on
RemovalsFrom(i, n) ==
  { k \in n..Len(i) : i[k].cmd = "docker volume rm" }

\* the step is `clean --preserve-db` of run.mjs or `clean-preserve-db` of
\* make-scripts.sh
PreservingClean ==
  \/ pc = "clean" /\ preserveDbGiven
  \/ shpc = "main" /\ shargs = <<"clean-preserve-db">>

\* the volumes `docker volume ls -q` lists, less the database volume
OtherVolumes == volumes \ {postgresVolume}

PlainClean ==
  \/ pc = "clean" /\ ~preserveDbGiven
  \/ shpc = "main" /\ shargs = <<"clean">>

\* the name is prefixed by COMPOSE_PROJECT_NAME
BelongsToProject(name) == startsWith(name, COMPOSE_PROJECT_NAME)

\* C16: `clean` without `--preserve-db` removes only resources of the
\* current project: every volume and every image that is gone after it has a
\* name prefixed by COMPOSE_PROJECT_NAME, and every volume or image it passes
\* to a removal command has such a name.
C16_CleanRemovesOnlyProjectResources ==
  [][PlainClean =>
       /\ \A v \in volumes \ volumes' : BelongsToProject(v)
       /\ \A im \in images \ images' : BelongsToProject(im)
       /\ \A k \in (Len(issued) + 1)..Len(issued') :
            issued'[k].cmd \in {"docker volume rm", "docker rmi"}
              => \A n \in issued'[k].args : BelongsToProject(n)]_vars

\* `clean` was confirmed on a host that has the database volume of another
\* compose project: the volume was passed to `docker volume rm` and is gone
C16_Witness ==
  /\ Ran("clean")
  /\ ~preserveDbGiven
  /\ exit = 0
  /\ "cleanup completed" \in out
  /\ \E k \in 1..Len(issued) :
       /\ issued[k].cmd = "docker volume rm"
       /\ V_other \in issued[k].args
  /\ V_other \notin volumes
  /\ I_other \in images

(***************************************************************************)
(* C17: `make setup-env` and the environment files that exist.             *)
(***************************************************************************)
\* the step is setup_env of make-scripts.sh
SettingUpEnv == shpc = "main" /\ shargs = <<"setup-env">>

\* C17: setup_env of make-scripts.sh does not overwrite: a .env or
\* .env.production that exists before the call has the same content after
\* it; a missing one is created as a copy of .env.example when that file is
\* there; when a target is missing and .env.example is absent the script
\* exits with status 1 and the target is not created.  No other file
\* changes.
C17_SetupEnvDoesNotOverwrite ==
  [][SettingUpEnv =>
       /\ \A t \in {F_env, F_prod} :
            /\ existsSync(fs, t) => fs'[t] = fs[t]
            /\ (~existsSync(fs, t) /\ existsSync(fs, F_example))
                 => fs'[t] = fs[F_example]
            /\ (~existsSync(fs, t) /\ ~existsSync(fs, F_example))
                 => /\ shexit' = 1
                    /\ ~existsSync(fs', t)
       /\ \A f \in (DOMAIN fs) \ {F_env, F_prod} : fs'[f] = fs[f]]_vars

\* setup-env ended in a tree that had .env and the template but no
\* .env.production: .env kept its content, .env.production is the copy
C17_Witness ==
  /\ shpc = "done"
  /\ shargs = <<"setup-env">>
  /\ shexit = 0
  /\ fs[F_env] = <<"N", "=", "x">>
  /\ existsSync(fs, F_example)
  /\ fs[F_prod] = fs[F_example]
  /\ fs[F_env] # fs[F_example]

(***************************************************************************)
(* C18: the names `setup` accepts, against the naming grammar.             *)
(***************************************************************************)
\* lowercase letters, digits, `-`, `_` and `.`
GrammarChar == LowerCase \cup Digits \cup {"-", "_", "."}

\* the grammar on a name without a scope: it starts with a lowercase letter
\* or a digit, holds grammar characters only, and does not end with a period
PlainGrammar(n) ==
  /\ Len(n) >= 1
  /\ n[1] \in LowerCase \cup Digits
  /\ \A i \in 1..Len(n) : n[i] \in GrammarChar
  /\ n[Len(n)] # "."

\* the naming grammar: a plain name, or `@`, a scope, `/` and a name, of
\* grammar characters, that does not end with a period
Grammar(n) ==
  \/ PlainGrammar(n)
  \/ \E k \in 2..(Len(n) - 1) :
       /\ n[1] = "@"
       /\ n[k] = "/"
       /\ \A i \in (2..Len(n)) \ {k} : n[i] \in GrammarChar
       /\ n[Len(n)] # "."

\* `setup` was given a name and has ended
SetupWithNameEnded == Finished /\ IsSetup /\ ~noProjectName

\* C18: `setup` accepts a name exactly when the name is in the naming
\* grammar: a name it accepts (the process ends with status 0) is in the
\* grammar, and a name outside the grammar is rejected (status 1, no file
\* touched).
C18_AcceptedNamesFollowGrammar ==
  SetupWithNameEnded =>
    /\ exit = 0 => Grammar(newProjectName)
    /\ ~Grammar(newProjectName) => exit = 1 /\ fs = snap

\* `setup ~x` has ended: the name starts with `~`, outside the grammar, the
\* pattern took it and the files were rewritten with it
C18_Witness ==
  /\ SetupWithNameEnded
  /\ newProjectName = <<"~", "x">>
  /\ ~Grammar(newProjectName)
  /\ namePattern(newProjectName)
  /\ exit = 0
  /\ fs # snap
  /\ Contains(fs[M_index], <<"~", "x">>)

(***************************************************************************)
(* C19: `setup` after a file failure.                                      *)
(***************************************************************************)
\* the step in which a failure lands in firstSetup's catch
FirstFailure == ~caught /\ caught'

\* firstSetup runs on after its catch
AfterFailure == caught /\ pc # "idle"

\* C19: `setup` is fail-fast on file errors.  The first failure of a file
\* operation interrupts the walk it occurs in: the error is printed, no
\* file is visited in that step or later, and the next step of the process
\* is the end of firstSetup, so a failure in the rename walk skips the walk
\* that creates the environment files.  The files visited before the
\* failure keep their substituted content and every file of the list from
\* the failing one on is as it was.  `setup` still prints "Project setup
\* complete" and the process exits with status 0.
C19_SetupFailFast ==
  /\ [][FirstFailure =>
          /\ pc \in {"rename", "env"}
          /\ pc' = "complete"
          /\ todo[idx] = badFile
          /\ "Error:" \in out'
          /\ visited' = visited
          /\ idx' = idx]_vars
  /\ [][AfterFailure =>
          /\ pc = "complete"
          /\ pc' = "idle"
          /\ fs' = fs
          /\ rng' = rng
          /\ visited' = visited
          /\ "Project setup complete" \in out'
          /\ exit' = 0]_vars
  /\ []((Finished /\ caught) =>
          /\ exit = 0
          /\ {"Error:", "Project setup complete"} \subseteq out
          /\ \E n \in 1..Len(RenameList) :
               /\ visited = Sub(RenameList, 1, n - 1)
               /\ \A i \in 1..(n - 1) :
                    fs[RenameList[i]] = Renamed(snap[RenameList[i]], newProjectName)
               /\ \A i \in n..Len(RenameList) :
                    fs[RenameList[i]] = snap[RenameList[i]]
          /\ \A t \in {F_env, F_prod} : ~existsSync(snap, t) => ~existsSync(fs, t))

\* `setup` ended after the read of packages/medusa/index.js failed: the
\* files before it were rewritten, it was not, and the process reported
\* completion with status 0
C19_Witness ==
  /\ Finished
  /\ caught
  /\ badFile = M_index
  /\ exit = 0
  /\ {"Error:", "Project setup complete"} \subseteq out
  /\ Len(visited) > 0
  /\ \E p \in Range(visited) : fs[p] # snap[p]
  /\ fs[M_index] = snap[M_index]
  /\ Contains(fs[M_index], NamePlaceholder)

(***************************************************************************)
(* C20: the gate of main on a project that was not set up.                 *)
(***************************************************************************)
GateMessage == "Error: Project setup has not been completed"

\* C20: when no .env exists in the working directory, a command other than
\* `help`, `check` and `setup` is refused: the process ends with status 1,
\* having printed the gate's message and nothing else (for an unknown
\* command too: the gate comes before the unknown-command check), without a
\* prompt, without a docker command and without a change to the tree or to
\* the host; `clean` and `clean:all` are entered only with a .env.
C20_GateBeforeCommands ==
  /\ [](pc \in {"clean", "cleanAll"} => existsSync(fs, F_env))
  /\ []((Finished /\ Gated) =>
          /\ exit = 1
          /\ out = {GateMessage}
          /\ "error: unknown command" \notin out
          /\ ans = << >>
          /\ issued = << >>
          /\ fs = snap)
  /\ [][(pc = "main" /\ Len(args) > 0 /\ ~existsSync(fs, F_env)
           /\ (IF Len(args) > 0
               THEN args[1] \notin {"help", "check", "setup"}
               ELSE FALSE)) =>
          /\ pc' = "idle"
          /\ exit' = 1
          /\ UNCHANGED <<fs, hostVars>>]_vars

\* `clean` was given in a tree without .env: it ended with status 1 at the
\* gate, no question asked, no docker command run, every volume still there
C20_Witness ==
  /\ Ran("clean")
  /\ ~existsSync(snap, F_env)
  /\ exit = 1
  /\ out = {GateMessage}
  /\ ans = << >>
  /\ issued = << >>
  /\ volumes = AllVolumes
  /\ images = AllImages

(***************************************************************************)
(* C21: the gate of main after `setup`.                                    *)
(***************************************************************************)
\* `clean` or `clean:all` has ended, started after a `setup` that ran both
\* walks to their end and reported completion, in a project whose root
\* holds .env.example
CleanAfterSetup ==
  /\ Finished
  /\ runs = 2
  /\ prev = "complete"
  /\ args[1] \in {"clean", "clean:all"}
  /\ existsSync(fs, F_example)

\* C21: after a `setup` with a valid name that reported "Project setup
\* complete" in a project whose root holds .env.example, the gate is open:
\* .env exists, and a following `clean` or `clean:all` is not refused with
\* the gate's message.
C21_GateOpenAfterSetup ==
  CleanAfterSetup =>
    /\ existsSync(fs, F_env)
    /\ GateMessage \notin out

\* `clean` after a completed `setup shop` in a tree with .env.example and
\* without .env: there is still no .env, and `clean` ended at the gate
C21_Witness ==
  /\ CleanAfterSetup
  /\ args = <<"clean">>
  /\ ~existsSync(fs, F_env)
  /\ ~Contains(fs[M_index], NamePlaceholder)
  /\ out = {GateMessage}
  /\ exit = 1
  /\ issued = << >>

(***************************************************************************)
(* C22: the confirmation of `clean` and `clean:all`.                       *)
(***************************************************************************)
\* the step is clean or cleanAll of run.mjs
NodeCleaning == pc \in {"clean", "cleanAll"}

\* the step is clean or clean_all of make-scripts.sh
ShellCleaning ==
  shpc = "main" /\ shargs \in {<<"clean">>, <<"clean-preserve-db">>, <<"clean-all">>}

\* the answer given at the prompt of the step
Answered == ans'[Len(ans')]

\* the step ran no command and left the volumes and the images as they were
HostUntouched == issued' = issued /\ volumes' = volumes /\ images' = images

\* C22: `clean` and `clean:all` issue no docker command unless the answer
\* is y: run.mjs takes `y` and `Y`, the script takes exactly `y`; after any
\* other answer, the empty one included, no command is issued and volumes
\* and images are as they were.
C22_OnlyYConfirms ==
  /\ [][NodeCleaning =>
          (Answered \notin {<<"y">>, <<"Y">>} => HostUntouched)]_vars
  /\ [][ShellCleaning =>
          (Answered # <<"y">> => HostUntouched)]_vars

\* C22 as amended: `clean` and `clean:all` ask once and issue no docker
\* command unless the answer is y: run.mjs takes the lines `y` and `Y` and
\* nothing else, the script takes the line whose text is `y` once `read` has
\* dropped the blanks around it (` y` confirms there); after any other
\* answer, the empty one included, no command is issued and volumes and
\* images are as they were.
C22_NoCommandUnlessConfirmed ==
  /\ [][NodeCleaning =>
          /\ Len(ans') = Len(ans) + 1
          /\ Answered \notin {<<"y">>, <<"Y">>} => HostUntouched
          /\ issued' # issued => Answered \in {<<"y">>, <<"Y">>}]_vars
  /\ [][ShellCleaning =>
          /\ Len(ans') = Len(ans) + 1
          /\ readR(Answered) # <<"y">> => HostUntouched
          /\ issued' # issued => readR(Answered) = <<"y">>]_vars

\* `clean:all` was answered `yes` on a host with every volume and image: it
\* ended with status 0, no docker command was issued, all of them are there
C22_Witness ==
  /\ Ran("clean:all")
  /\ ans = << <<"y", "e", "s">> >>
  /\ exit = 0
  /\ issued = << >>
  /\ volumes = AllVolumes
  /\ images = AllImages

(***************************************************************************)
(* C23: the stages of the deployment script and its completion.            *)
(***************************************************************************)
Services == {BACKEND_SERVICE, STOREFRONT_SERVICE}

\* the loop of service s has ended, by a 200 or with its budget spent
LoopEnded(s) == healthyAt[s] > 0 \/ probes[s] = MAX_RETRIES + 1

\* the storefront stage has begun: its image is built, or it was probed
StorefrontBegun ==
  \/ dpc \in {STOREFRONT_SERVICE, "prune", "done"}
  \/ "Build storefront docker image" \in dout
  \/ probes[STOREFRONT_SERVICE] > 0

\* C23: the deployment script is staged and runs to its end.  The
\* storefront is built and started only after the backend loop has ended
\* (by a 200 or by spending its budget) and the seed decision has been
\* taken; each loop makes at most MAX_RETRIES + 1 probes; and whatever the
\* probes return, both budgets spent included, the script reaches
\* "Deployment completed", with both loops ended and one seed decision.
C23_StagedAndCompletes ==
  /\ [](StorefrontBegun => LoopEnded(BACKEND_SERVICE) /\ decisions = 1)
  /\ [][dpc' = "storefrontStart" => dpc = "seed" /\ decisions' = 1]_vars
  /\ [][dpc' = STOREFRONT_SERVICE =>
          dpc \in {"storefrontStart", STOREFRONT_SERVICE}]_vars
  /\ [](\A s \in Services : probes[s] <= MAX_RETRIES + 1)
  /\ []("Deployment completed" \in dout <=> dpc = "done")
  /\ [](dpc = "done" => \A s \in Services : LoopEnded(s))
  /\ <>(dpc = "done")

\* the script has ended after both services never answered 200: each loop
\* made MAX_RETRIES + 1 probes, the seed command ran, and the script
\* reported the deployment as completed
C23_Witness ==
  /\ dpc = "done"
  /\ "Deployment completed" \in dout
  /\ \A s \in Services : healthyAt[s] = 0 /\ probes[s] = MAX_RETRIES + 1
  /\ decisions = 1
  /\ seedRuns = 1
  /\ "Build storefront docker image" \in dout

(***************************************************************************)
(* C24: version_compare under the swap of its arguments.                   *)
(***************************************************************************)
\* what version_compare returns for the arguments of the call, swapped
Swapped == version_compare(verArgs[2], verArgs[1])

\* C24: version_compare is antisymmetric: for all version strings a and b
\* it returns 1 (greater) for (a, b) exactly when it returns 2 (less) for
\* (b, a), and 0 (equal) for (a, b) exactly when it returns 0 for (b, a),
\* also when one list of components is a prefix of the other.
C24_Antisymmetric ==
  Returned =>
    /\ verResult = 1 <=> Swapped = 2
    /\ verResult = 2 <=> Swapped = 1
    /\ verResult = 0 <=> Swapped = 0

\* version_compare "9.5.0" "9.5" returned 0 (equal), while the call with
\* the arguments swapped returns 2 (less)
C24_Witness ==
  /\ verArgs = << <<"9", ".", "5", ".", "0">>, <<"9", ".", "5">> >>
  /\ verResult = 0
  /\ Swapped = 2

(***************************************************************************)
(* C25: a body without a count, and where the count comes from.            *)
(***************************************************************************)
\* body holds "count": followed by blanks, if any, and a digit
HasCountSubstring(body) ==
  \E p \in 1..Len(body), w \in 0..Len(body) :
    /\ OccursAt(body, CountKey, p)
    /\ \A j \in 1..w :
         IF p + 7 + j > Len(body) THEN FALSE ELSE body[p + 7 + j] \in RegexSpace
    /\ IF p + 8 + w > Len(body) THEN FALSE ELSE body[p + 8 + w] \in Digits

\* the backend answered 200 and the body of the follow-up GET holds no count
HealthyWithoutCount ==
  IF healthyAt[BACKEND_SERVICE] > 0 /\ Len(followUps) = 1
  THEN ~HasCountSubstring(followUps[1].body)
  ELSE FALSE

\* C25: when the backend probe succeeds and the body of the follow-up GET
\* holds no "count": <digits>, nothing is extracted, the seed test takes the
\* count as it takes 0 and the seed command is run; REGION_COUNT is assigned
\* only in the step of the first probe answered with 200, from the body
\* fetched in that step, and never in a step whose probe failed.
C25_NoCountMeansSeed ==
  /\ [](HealthyWithoutCount =>
          /\ REGION_COUNT = << >>
          /\ ~HasData(REGION_COUNT)
          /\ decisions = 1 =>
               /\ seedRuns = 1
               /\ "Initialize seed data" \in dout
               /\ "The application already has data" \notin dout)
  /\ [][(ProbeMade /\ response' # 200) => REGION_COUNT' = REGION_COUNT]_vars
  /\ [][REGION_COUNT' # REGION_COUNT =>
          /\ dpc = BACKEND_SERVICE
          /\ response' = 200
          /\ healthyAt[BACKEND_SERVICE] = 0
          /\ followUps = << >>
          /\ Len(followUps') = 1
          /\ REGION_COUNT' = grepCount(followUps'[1].body)
          /\ HasCountSubstring(followUps'[1].body) <=> REGION_COUNT' # << >>]_vars

\* the backend answered 200 on its second probe, the follow-up body holds
\* the count in quotes, so no "count": <digits>: nothing was extracted and
\* the seed command ran
C25_Witness ==
  /\ dpc = "storefrontStart"
  /\ healthyAt[BACKEND_SERVICE] = 2
  /\ Len(followUps) = 1
  /\ Contains(followUps[1].body, CountKey)
  /\ ~HasCountSubstring(followUps[1].body)
  /\ REGION_COUNT = << >>
  /\ seedRuns = 1
  /\ "Initialize seed data" \in dout

=============================================================================
